---- MODULE Spec2Model ----
(***************************************************************************)
(* A model of plylist: the Track / Playlist entities, the JSON storage,    *)
(* the PlaylistManager facade and the Apple Music platform adapter.        *)
(*                                                                         *)
(* Conventions.                                                            *)
(*   - A Python str whose characters matter (title, artist, ISRC) is a     *)
(*     sequence of one-character strings, so that lower(), strip() and     *)
(*     the "in" substring test are computed and not assumed.               *)
(*   - Optional[x] is a sequence of length at most one: None is <<>> and   *)
(*     a present value v is <<v>>.                                         *)
(*   - A dict is a function; a missing key is a key outside its DOMAIN.    *)
(*   - uuid4() values are drawn from counters, datetime.now() from clock.  *)
(***************************************************************************)
EXTENDS Integers, Sequences, FiniteSets, TLC

VARIABLES
    files,      \* storage_dir/<playlist_id>.json : playlist_id -> dict
    index,      \* storage_dir/index.json         : playlist_id -> summary
    platforms,  \* PlaylistManager.platforms      : the registered names
    remote,     \* the platform's library playlists: id -> [name, tracks]
    nextPid,    \* next uuid4() of a Playlist
    nextTid,    \* next uuid4() of a Track
    nextRid,    \* next playlist id the platform hands out
    clock,      \* datetime.now(timezone.utc)
    exports,    \* files written by export_playlist: path -> content
    pushCreates, \* playlist_id -> create_playlist calls of successful pushes
    last,       \* the last manager call: its arguments, result, adapter calls
    budget,     \* manager calls the one-process exploration may still make
    held,       \* a Playlist a caller got from get_playlist and still holds
    pc,         \* two-process model: each process's position in save/delete
    job,        \* two-process model: the playlist a process is saving
    lidx,       \* two-process model: the index a process has loaded
    arg,        \* pure-function models: the inputs
    out         \* pure-function models: the result

mgrVars == <<files, index, platforms, remote, nextPid, nextTid, nextRid, clock,
            exports, pushCreates, last>>
raceVars == <<pc, job, lidx>>
pureVars == <<arg, out>>
callerVars == <<held>>
vars == <<files, index, platforms, remote, nextPid, nextTid, nextRid, clock, exports,
          pushCreates, last, budget, held,
          pc, job, lidx, arg, out>>

----------------------------------------------------------------------------
(* Bounds of the model *)

MaxLen == 2
MaxResults == 2
MaxPlaylists == 2
MaxTracks == 2
MaxTids == 2
MaxRemoteTracks == 4
MaxClock == 1
MaxCalls == 3
MaxCopies == 1
MaxMerge == 2

----------------------------------------------------------------------------
(* Python values *)

None == <<>>
Some(v) == <<v>>
IsNone(o) == Len(o) = 0
Val(o) == o[1]

\* The empty dict.
EmptyDict == <<>>

\* dict.get(key): the value, or None.
DictGet(d, k) == IF k \in DOMAIN d THEN Some(d[k]) ELSE None

\* d[k] = v
DictSet(d, k, v) == (k :> v) @@ d

\* del d[k]
DictDel(d, k) == [x \in (DOMAIN d) \ {k} |-> d[x]]

\* Truthiness of an Optional[str] whose str is a character sequence:
\* None and "" are falsy.
TruthyStr(o) == ~IsNone(o) /\ Len(Val(o)) > 0

----------------------------------------------------------------------------
(* str: lower(), strip(), "in" *)

Chars == {"a", "A", "b", "B", "x", "X", "y", "Y", " "}

LowerChar(c) ==
    CASE c = "A" -> "a"
      [] c = "B" -> "b"
      [] c = "X" -> "x"
      [] c = "Y" -> "y"
      [] OTHER -> c

\* str.lower()
Lower(s) == [i \in 1..Len(s) |-> LowerChar(s[i])]

IsSpace(c) == c = " "

RECURSIVE LStrip(_)
LStrip(s) ==
    IF Len(s) > 0 /\ IsSpace(s[1]) THEN LStrip(Tail(s)) ELSE s

RECURSIVE RStrip(_)
RStrip(s) ==
    IF Len(s) > 0 /\ IsSpace(s[Len(s)]) THEN RStrip(SubSeq(s, 1, Len(s) - 1)) ELSE s

\* str.strip()
Strip(s) == RStrip(LStrip(s))

\* needle in hay
StrIn(needle, hay) ==
    \E i \in 0..(Len(hay) - Len(needle)) :
        SubSeq(hay, i + 1, i + Len(needle)) = needle

RECURSIVE StrsUpTo(_, _)
StrsUpTo(alphabet, n) ==
    IF n = 0 THEN {<<>>}
    ELSE LET shorter == StrsUpTo(alphabet, n - 1)
         IN  shorter \cup {Append(s, c) : s \in shorter, c \in alphabet}

RECURSIVE SeqsUpTo(_, _)
SeqsUpTo(S, n) ==
    IF n = 0 THEN {<<>>}
    ELSE LET shorter == SeqsUpTo(S, n - 1)
         IN  shorter \cup {Append(s, x) : s \in shorter, x \in S}

----------------------------------------------------------------------------
(* models/track.py *)

AppleMusic == "apple_music"

\* Track(...): the dataclass with its defaults; track_id is the uuid drawn
\* by the caller.  added_at and metadata are not modelled.
Track(title, artist, album, duration_ms, isrc, tid) ==
    [title |-> title, artist |-> artist, album |-> album,
     duration_ms |-> duration_ms, isrc |-> isrc,
     platform_ids |-> EmptyDict, track_id |-> tid,
     additional_artists |-> <<>>]

\* Track.add_platform_id
TrackAddPlatformId(t, platform, id) ==
    [t EXCEPT !.platform_ids = DictSet(t.platform_ids, platform, id)]

\* Track.get_platform_id / Playlist.get_platform_id: Optional[str], an id
\* being an atomic string.
GetPlatformId(x, platform) == DictGet(x.platform_ids, platform)

\* Truthiness of an Optional platform id.
TruthyId(o) == ~IsNone(o) /\ Val(o) # ""

\* A mutant of Matches: the ISRC branch is taken when either side has one.
MatchesIsrcEither(self, other, strict) ==
    IF TruthyStr(self.isrc) \/ TruthyStr(other.isrc)
    THEN self.isrc = other.isrc
    ELSE /\ Strip(Lower(self.title)) = Strip(Lower(other.title))
         /\ Strip(Lower(self.artist)) = Strip(Lower(other.artist))

\* Track.matches
Matches(self, other, strict) ==
    IF TruthyStr(self.isrc) /\ TruthyStr(other.isrc)
    THEN self.isrc = other.isrc
    ELSE LET title_match == Strip(Lower(self.title)) = Strip(Lower(other.title))
             artist_match == Strip(Lower(self.artist)) = Strip(Lower(other.artist))
         IN  IF strict THEN title_match /\ artist_match
             ELSE title_match /\ artist_match

----------------------------------------------------------------------------
(* platforms/apple_music.py: search_track *)

\* The catalog songs a search response can rank: id and attributes.
Song(id, name, artistName) == [id |-> id, name |-> name, artistName |-> artistName]

Songs ==
    { Song("s1", <<"A", "b">>, <<"X">>),
      Song("s2", <<"b">>, <<"x", "y">>),
      Song("s3", <<"a", "b", "a">>, <<"Y">>) }

\* The outcome of the search request: the request failed (None), or the
\* ranked data list of results.songs.
HttpFail == [ok |-> FALSE, data |-> <<>>]
HttpData(d) == [ok |-> TRUE, data |-> d]

SearchResponses(n) == {HttpFail} \cup {HttpData(d) : d \in SeqsUpTo(Songs, n)}

\* The containment test of the loop body.
SongMatches(title, artist, song) ==
    /\ StrIn(Lower(title), Lower(song.name))
    /\ StrIn(Lower(artist), Lower(song.artistName))

\* A mutant of SearchTrack: only the first ranked result is looked at.
SearchTrackFirstOnly(title, artist, resp) ==
    IF ~resp.ok \/ Len(resp.data) = 0 THEN None
    ELSE IF SongMatches(title, artist, resp.data[1]) THEN Some(resp.data[1])
    ELSE None

\* The loop "for song in songs": the first song, in rank order, that passes
\* the containment test.
RECURSIVE FindBestMatch(_, _, _)
FindBestMatch(title, artist, songs) ==
    IF Len(songs) = 0 THEN None
    ELSE IF SongMatches(title, artist, Head(songs)) THEN Some(Head(songs))
    ELSE FindBestMatch(title, artist, Tail(songs))

\* AppleMusicPlatform.search_track: the song the returned Track is built
\* from (its id becomes the track's apple_music platform id), or None.
SearchTrack(title, artist, resp) ==
    IF ~resp.ok THEN None
    ELSE IF Len(resp.data) = 0 THEN None
    ELSE FindBestMatch(title, artist, resp.data)

----------------------------------------------------------------------------
(* models/playlist.py *)

\* Playlist(...): the dataclass with its defaults; pid is the uuid drawn,
\* now the clock read by the default factories.  metadata is not modelled.
Playlist(name, description, tracks, tags, pid, now) ==
    [name |-> name, description |-> description, tracks |-> tracks,
     playlist_id |-> pid, created_at |-> now, updated_at |-> now,
     platform_ids |-> EmptyDict, tags |-> tags]

\* Playlist._update_timestamp
UpdateTimestamp(p, now) == [p EXCEPT !.updated_at = now]

\* Playlist.add_track
PlaylistAddTrack(p, track, now) ==
    UpdateTimestamp([p EXCEPT !.tracks = Append(@, track)], now)

\* Playlist.add_platform_id
PlaylistAddPlatformId(p, platform, id, now) ==
    UpdateTimestamp([p EXCEPT !.platform_ids = DictSet(@, platform, id)], now)

\* tag in self.tags
InSeq(x, seq) == \E i \in 1..Len(seq) : seq[i] = x

\* Playlist.add_tag
PlaylistAddTag(p, tag, now) ==
    IF ~InSeq(tag, p.tags)
    THEN UpdateTimestamp([p EXCEPT !.tags = Append(@, tag)], now)
    ELSE p

\* list.pop(i) and list.insert(i, x) for an index i in range, counted
\* from 0 as Python does.
ListPop(seq, i) ==
    [j \in 1..(Len(seq) - 1) |-> IF j <= i THEN seq[j] ELSE seq[j + 1]]

ListInsert(seq, i, x) ==
    [j \in 1..(Len(seq) + 1) |->
        IF j <= i THEN seq[j] ELSE IF j = i + 1 THEN x ELSE seq[j - 1]]

\* A mutant of PlaylistRemoveTrack: only the first track with the id goes.
PlaylistRemoveTrackFirstOnly(p, track_id, now) ==
    IF \E k \in 1..Len(p.tracks) : p.tracks[k].track_id = track_id
    THEN LET i == CHOOSE k \in 1..Len(p.tracks) :
                      /\ p.tracks[k].track_id = track_id
                      /\ \A j \in 1..(k - 1) : p.tracks[j].track_id # track_id
         IN  [ret |-> TRUE,
              playlist |-> UpdateTimestamp([p EXCEPT !.tracks = ListPop(@, i - 1)], now)]
    ELSE [ret |-> FALSE, playlist |-> p]

\* Playlist.remove_track: ret is its return value, playlist the object
\* after the call.
PlaylistRemoveTrack(p, track_id, now) ==
    LET kept == SelectSeq(p.tracks, LAMBDA t : t.track_id # track_id)
    IN  IF Len(kept) < Len(p.tracks)
        THEN [ret |-> TRUE, playlist |-> UpdateTimestamp([p EXCEPT !.tracks = kept], now)]
        ELSE [ret |-> FALSE, playlist |-> [p EXCEPT !.tracks = kept]]

\* A mutant of PlaylistMoveTrack: the two tracks change places.
PlaylistMoveTrackSwap(p, from_index, to_index, now) ==
    IF /\ 0 <= from_index /\ from_index < Len(p.tracks)
       /\ 0 <= to_index /\ to_index < Len(p.tracks)
    THEN [ret |-> TRUE,
          playlist |-> UpdateTimestamp(
              [p EXCEPT !.tracks[from_index + 1] = p.tracks[to_index + 1],
                        !.tracks[to_index + 1] = p.tracks[from_index + 1]], now)]
    ELSE [ret |-> FALSE, playlist |-> p]

\* A mutant of PlaylistMoveTrack: negative indices count from the end, as
\* they do for a Python list.
PlaylistMoveTrackFromEnd(p, from_index, to_index, now) ==
    LET n == Len(p.tracks)
        f == IF from_index < 0 THEN from_index + n ELSE from_index
        t == IF to_index < 0 THEN to_index + n ELSE to_index
    IN  IF 0 <= f /\ f < n /\ 0 <= t /\ t < n
        THEN [ret |-> TRUE,
              playlist |-> UpdateTimestamp(
                  [p EXCEPT !.tracks = ListInsert(ListPop(p.tracks, f), t,
                                                  p.tracks[f + 1])], now)]
        ELSE [ret |-> FALSE, playlist |-> p]

\* Playlist.move_track
PlaylistMoveTrack(p, from_index, to_index, now) ==
    IF /\ 0 <= from_index /\ from_index < Len(p.tracks)
       /\ 0 <= to_index /\ to_index < Len(p.tracks)
    THEN LET track == p.tracks[from_index + 1]
             moved == ListInsert(ListPop(p.tracks, from_index), to_index, track)
         IN  [ret |-> TRUE, playlist |-> UpdateTimestamp([p EXCEPT !.tracks = moved], now)]
    ELSE [ret |-> FALSE, playlist |-> p]

\* Playlist.__len__, which decides the truthiness of a Playlist object.
PlaylistLen(p) == Len(p.tracks)

\* Track.to_dict: asdict(self)
TrackToDict(t) ==
    [title |-> t.title, artist |-> t.artist, album |-> t.album,
     duration_ms |-> t.duration_ms, isrc |-> t.isrc,
     platform_ids |-> t.platform_ids, track_id |-> t.track_id,
     additional_artists |-> t.additional_artists]

\* Track.from_dict: cls(**data)
TrackFromDict(d) ==
    [title |-> d.title, artist |-> d.artist, album |-> d.album,
     duration_ms |-> d.duration_ms, isrc |-> d.isrc,
     platform_ids |-> d.platform_ids, track_id |-> d.track_id,
     additional_artists |-> d.additional_artists]

\* Playlist.to_dict
ToDict(p) ==
    [name |-> p.name, description |-> p.description,
     tracks |-> [i \in 1..Len(p.tracks) |-> TrackToDict(p.tracks[i])],
     playlist_id |-> p.playlist_id, created_at |-> p.created_at,
     updated_at |-> p.updated_at, platform_ids |-> p.platform_ids,
     tags |-> p.tags]

\* Playlist.from_dict: the dictionary it leaves behind, data.pop("tracks", [])
\* having removed the key.
FromDictData(d) == DictDel(d, "tracks")

\* Playlist.from_dict: the playlist it returns
FromDict(d) ==
    [name |-> d.name, description |-> d.description,
     tracks |-> LET track_dicts == IF "tracks" \in DOMAIN d THEN d.tracks ELSE <<>>
                IN  [i \in 1..Len(track_dicts) |-> TrackFromDict(track_dicts[i])],
     playlist_id |-> d.playlist_id, created_at |-> d.created_at,
     updated_at |-> d.updated_at, platform_ids |-> d.platform_ids,
     tags |-> d.tags]

----------------------------------------------------------------------------
(* storage/json_storage.py *)

\* What the file system can do to one JSONStorage.save: both writes succeed;
\* opening the playlist file fails (nothing is written); the playlist file
\* is written and the index update fails.
SaveOutcomes == {"ok", "file_error", "index_error"}

\* The index entry save() writes.
Summary(p) ==
    [name |-> p.name, track_count |-> Len(p.tracks),
     created_at |-> p.created_at, updated_at |-> p.updated_at,
     tags |-> p.tags]

\* JSONStorage.save: the playlist files after it.
SaveFiles(fs, p, oc) ==
    IF oc = "file_error" THEN fs ELSE DictSet(fs, p.playlist_id, ToDict(p))

\* JSONStorage.save: the index after it.
SaveIndex(idx, p, oc) ==
    IF oc = "ok" THEN DictSet(idx, p.playlist_id, Summary(p)) ELSE idx

\* JSONStorage.save: its return value.
SaveReturns(oc) == oc = "ok"

\* JSONStorage.delete: the outcomes of its file operations, the playlist
\* files, the index and the return value after it.
DeleteOutcomes == {"ok", "file_error", "index_error"}

\* A mutant of DeleteFiles: the copies of the playlist go with it.
DeleteFilesCascade(fs, playlist_id, oc) ==
    IF oc = "file_error" \/ playlist_id \notin DOMAIN fs THEN fs
    ELSE [x \in {y \in (DOMAIN fs) \ {playlist_id} :
                    fs[y].name # "Copy of " \o fs[playlist_id].name} |-> fs[x]]

DeleteFiles(fs, playlist_id, oc) ==
    IF oc = "file_error" THEN fs ELSE DictDel(fs, playlist_id)

\* A mutant of DeleteIndex: the entry stays in the index.
DeleteIndexKeepsEntry(idx, playlist_id, oc) == idx

DeleteIndex(idx, playlist_id, oc) ==
    IF oc = "ok" THEN DictDel(idx, playlist_id) ELSE idx

DeleteReturns(oc) == oc = "ok"

\* JSONStorage.load
Load(fs, pid) ==
    IF pid \in DOMAIN fs THEN Some(FromDict(fs[pid])) ELSE None

\* The storage directory as one name space of file stems: <id>.json for
\* every playlist and index.json for the index (json_storage.py:30, 53).
IndexStem == "index"

\* The directory __init__ leaves: _ensure_index has written {}.
FreshDir == IndexStem :> EmptyDict

\* The keyword arguments Playlist(**data) accepts.
PlaylistKeys ==
    {"name", "description", "tracks", "playlist_id", "created_at", "updated_at",
     "platform_ids", "tags"}

\* JSONStorage._load_index
DirLoadIndex(dir) == IF IndexStem \in DOMAIN dir THEN dir[IndexStem] ELSE EmptyDict

\* JSONStorage.save with no I/O error: the playlist file is written, the
\* index file is read back, given the entry and written.
DirSave(dir, p) ==
    LET written == DictSet(dir, p.playlist_id, ToDict(p))
        idx == DirLoadIndex(written)
    IN  DictSet(written, IndexStem, DictSet(idx, p.playlist_id, Summary(p)))

\* JSONStorage.load: cls(**data) raises TypeError for a key that is not a
\* field and for a missing name, and load returns None for every exception.
DirLoad(dir, playlist_id) ==
    IF playlist_id \notin DOMAIN dir THEN None
    ELSE LET data == dir[playlist_id]
         IN  IF DOMAIN data \subseteq PlaylistKeys /\ "name" \in DOMAIN data
             THEN Some(FromDict(data))
             ELSE None

\* str(n) and int(s) for n >= 0, in decimal digits.
Digits == <<"0", "1", "2", "3", "4", "5", "6", "7", "8", "9">>

RECURSIVE IntToStr(_)
IntToStr(n) ==
    IF n < 10 THEN <<Digits[n + 1]>>
    ELSE Append(IntToStr(n \div 10), Digits[(n % 10) + 1])

DigitValue(c) == CHOOSE d \in 0..9 : Digits[d + 1] = c

RECURSIVE StrToInt(_)
StrToInt(s) ==
    IF Len(s) = 1 THEN DigitValue(s[1])
    ELSE 10 * StrToInt(SubSeq(s, 1, Len(s) - 1)) + DigitValue(s[Len(s)])

\* ", ".join(parts)
CommaSpace == <<",", " ">>

RECURSIVE JoinComma(_)
JoinComma(parts) ==
    IF Len(parts) = 0 THEN <<>>
    ELSE IF Len(parts) = 1 THEN parts[1]
    ELSE parts[1] \o CommaSpace \o JoinComma(Tail(parts))

\* s.split(", ")
RECURSIVE SplitComma(_)
SplitComma(s) ==
    IF StrIn(CommaSpace, s)
    THEN LET i == CHOOSE k \in 0..(Len(s) - 2) :
                      /\ SubSeq(s, k + 1, k + 2) = CommaSpace
                      /\ \A j \in 0..(k - 1) : SubSeq(s, j + 1, j + 2) # CommaSpace
         IN  <<SubSeq(s, 1, i)>> \o SplitComma(SubSeq(s, i + 3, Len(s)))
    ELSE <<s>>

\* x or "" for an Optional[str] x: the cell written for it.
StrOrEmpty(o) == IF TruthyStr(o) THEN Val(o) ELSE <<>>

\* JSONStorage.export_playlist, format "csv": the row written for a track.
\* "track.duration_ms or ''" writes the empty cell for None and for 0.
CsvRow(t) ==
    [Title |-> t.title, Artist |-> t.artist,
     Album |-> StrOrEmpty(t.album),
     Duration |-> IF IsNone(t.duration_ms) \/ Val(t.duration_ms) = 0
                  THEN <<>> ELSE IntToStr(Val(t.duration_ms)),
     ISRC |-> StrOrEmpty(t.isrc),
     AdditionalArtists |-> JoinComma(t.additional_artists)]

\* cell or None
EmptyToNone(cell) == IF Len(cell) > 0 THEN Some(cell) ELSE None

\* JSONStorage.import_playlist, format "csv": the Track built from a row,
\* with the fresh track_id tid.
CsvTrack(row, tid) ==
    [Track(row.Title, row.Artist, EmptyToNone(row.Album),
           IF Len(row.Duration) > 0 THEN Some(StrToInt(row.Duration)) ELSE None,
           EmptyToNone(row.ISRC), tid)
        EXCEPT !.additional_artists =
                   IF Len(row.AdditionalArtists) > 0
                   THEN SplitComma(row.AdditionalArtists) ELSE <<>>]

\* The file export_playlist writes, one row per track in order, and the
\* tracks import_playlist builds from it, with track ids from tid on.
CsvExport(tracks) == [i \in 1..Len(tracks) |-> CsvRow(tracks[i])]

CsvImportTracks(rows, tid) == [i \in 1..Len(rows) |-> CsvTrack(rows[i], tid + i - 1)]

\* JSONStorage.get_storage_stats: the counts it takes from list_all.
RECURSIVE SumTrackCounts(_, _)
SumTrackCounts(idx, ids) ==
    IF ids = {} THEN 0
    ELSE LET id == CHOOSE x \in ids : TRUE
         IN  idx[id].track_count + SumTrackCounts(idx, ids \ {id})

GetStorageStats(idx) ==
    [total_playlists |-> Cardinality(DOMAIN idx),
     total_tracks |-> SumTrackCounts(idx, DOMAIN idx)]

\* JSONStorage.list_all
ListAll(idx) == {[playlist_id |-> pid, info |-> idx[pid]] : pid \in DOMAIN idx}

----------------------------------------------------------------------------
(* platforms/apple_music.py: create_playlist, update_playlist, get_playlist *)

\* One track of the loops of create_playlist and update_playlist: the id it
\* contributes, or None.  resp is the outcome of the search request that is
\* issued when the track carries no apple_music id.
ResolveTrack(track, resp) ==
    LET am_id == GetPlatformId(track, AppleMusic)
    IN  IF ~TruthyId(am_id)
        THEN LET found_track == SearchTrack(track.title, track.artist, resp)
             IN  IF ~IsNone(found_track) THEN Some(Val(found_track).id) ELSE am_id
        ELSE am_id

\* A mutant of BuildTrackIds: the first track that cannot be resolved ends
\* the loop.
RECURSIVE BuildTrackIdsAbort(_, _)
BuildTrackIdsAbort(tracks, resps) ==
    IF Len(tracks) = 0 THEN <<>>
    ELSE LET am_id == ResolveTrack(Head(tracks), Head(resps))
         IN  IF TruthyId(am_id)
             THEN <<Val(am_id)>> \o BuildTrackIdsAbort(Tail(tracks), Tail(resps))
             ELSE <<>>

\* The loop "for track in playlist.tracks": track_items / track_ids.
RECURSIVE BuildTrackIds(_, _)
BuildTrackIds(tracks, resps) ==
    IF Len(tracks) = 0 THEN <<>>
    ELSE LET am_id == ResolveTrack(Head(tracks), Head(resps))
             rest == BuildTrackIds(Tail(tracks), Tail(resps))
         IN  IF TruthyId(am_id) THEN <<Val(am_id)>> \o rest ELSE rest

\* The platform's library: POST /me/library/playlists creates a playlist
\* with the given tracks under the id the platform hands out.
RemoteCreate(rem, rid, name, ids) ==
    DictSet(rem, rid, [name |-> name, tracks |-> ids])

\* PATCH /me/library/playlists/{id}
RemotePatch(rem, rid, name) == [rem EXCEPT ![rid].name = name]

\* POST /me/library/playlists/{id}/tracks adds the ids to the playlist, as
\* add_tracks_to_playlist uses it.
RemotePostTracks(rem, rid, ids) == [rem EXCEPT ![rid].tracks = @ \o ids]

\* The outcome of the requests of one adapter call: whether the first and
\* the second request succeed.
HttpOutcomes == [first : BOOLEAN, second : BOOLEAN]

\* AppleMusicPlatform.create_playlist.  ret is the returned id or None,
\* sent the track list of the request made.
AmCreatePlaylist(p, rem, rid, resps, http) ==
    LET track_items == BuildTrackIds(p.tracks, resps)
    IN  IF http.first
        THEN [ret |-> Some(rid), remote |-> RemoteCreate(rem, rid, p.name, track_items),
              sent |-> Some(track_items)]
        ELSE [ret |-> None, remote |-> rem, sent |-> Some(track_items)]

\* AppleMusicPlatform._replace_playlist_tracks
ReplacePlaylistTracks(rem, playlist_id, track_ids, ok) ==
    IF ok
    THEN [ret |-> TRUE, remote |-> RemotePostTracks(rem, playlist_id, track_ids)]
    ELSE [ret |-> FALSE, remote |-> rem]

\* AppleMusicPlatform.update_playlist.  A PATCH of a playlist the library
\* does not have fails.
AmUpdatePlaylist(p, rem, resps, http) ==
    LET am_id == GetPlatformId(p, AppleMusic)
    IN  IF ~TruthyId(am_id)
        THEN [ret |-> FALSE, remote |-> rem, sent |-> None]
        ELSE IF ~(http.first /\ Val(am_id) \in DOMAIN rem)
        THEN [ret |-> FALSE, remote |-> rem, sent |-> None]
        ELSE LET patched == RemotePatch(rem, Val(am_id), p.name)
                 track_ids == BuildTrackIds(p.tracks, resps)
                 r == ReplacePlaylistTracks(patched, Val(am_id), track_ids, http.second)
             IN  [ret |-> r.ret, remote |-> r.remote, sent |-> Some(track_ids)]

\* The attributes the library reports for a track id.
SongById(id) == CHOOSE s \in Songs : s.id = id

\* The tracks get_playlist builds from the tracks response, each with a
\* fresh track_id, appended by Playlist.add_track.
RECURSIVE AddRemoteTracks(_, _, _, _)
AddRemoteTracks(p, ids, tid, now) ==
    IF Len(ids) = 0 THEN p
    ELSE LET s == SongById(Head(ids))
             track == TrackAddPlatformId(
                          Track(s.name, s.artistName, None, None, None, tid),
                          AppleMusic, s.id)
         IN  AddRemoteTracks(PlaylistAddTrack(p, track, now), Tail(ids), tid + 1, now)

\* AppleMusicPlatform.get_playlist: the playlist request, then the tracks
\* request; a failed tracks request leaves the playlist without tracks.
AmGetPlaylist(rem, platform_id, http, pid, tid, now) ==
    IF ~(http.first /\ platform_id \in DOMAIN rem) THEN None
    ELSE LET playlist == PlaylistAddPlatformId(
                             Playlist(rem[platform_id].name, None, <<>>, <<>>, pid, now),
                             AppleMusic, platform_id, now)
         IN  IF http.second
             THEN Some(AddRemoteTracks(playlist, rem[platform_id].tracks, tid, now))
             ELSE Some(playlist)

\* AppleMusicPlatform.delete_playlist: _make_request returns None for a
\* failed request, so nothing is raised, and its result is not looked at.
AmDeletePlaylist(rem, platform_id, request_ok) ==
    [ret |-> TRUE,
     remote |-> IF request_ok /\ platform_id \in DOMAIN rem
                THEN DictDel(rem, platform_id) ELSE rem]

----------------------------------------------------------------------------
(* platforms/base.py *)

\* A mutant of SyncPlaylistToPlatform: it always creates.
SyncPlaylistToPlatformAlwaysCreate(p, rem, rid, resps, http, now) ==
    LET c == AmCreatePlaylist(p, rem, rid, resps, http)
    IN  [ret |-> ~IsNone(c.ret),
         playlist |-> IF ~IsNone(c.ret)
                      THEN PlaylistAddPlatformId(p, AppleMusic, Val(c.ret), now)
                      ELSE p,
         remote |-> c.remote, creates |-> 1, updates |-> 0, sent |-> c.sent,
         new_id |-> c.ret]

\* A mutant of SyncPlaylistToPlatform: a failed create still sets an id.
SyncPlaylistToPlatformKeepsBadId(p, rem, rid, resps, http, now) ==
    LET platform_id == GetPlatformId(p, AppleMusic)
    IN  IF TruthyId(platform_id)
        THEN LET u == AmUpdatePlaylist(p, rem, resps, http)
             IN  [ret |-> u.ret, playlist |-> p, remote |-> u.remote,
                  creates |-> 0, updates |-> 1, sent |-> u.sent, new_id |-> None]
        ELSE LET c == AmCreatePlaylist(p, rem, rid, resps, http)
             IN  [ret |-> ~IsNone(c.ret),
                  playlist |-> PlaylistAddPlatformId(p, AppleMusic, rid, now),
                  remote |-> c.remote, creates |-> 1, updates |-> 0,
                  sent |-> c.sent, new_id |-> c.ret]

\* A mutant of SyncPlaylistToPlatform: the ids the search found are written
\* to the playlist's tracks.
SyncPlaylistToPlatformWritesBack(p, rem, rid, resps, http, now) ==
    LET platform_id == GetPlatformId(p, AppleMusic)
        resolved(i) ==
            IF TruthyId(GetPlatformId(p.tracks[i], AppleMusic)) THEN p.tracks[i]
            ELSE LET found == SearchTrack(p.tracks[i].title, p.tracks[i].artist, resps[i])
                 IN  IF IsNone(found) THEN p.tracks[i]
                     ELSE TrackAddPlatformId(p.tracks[i], AppleMusic, Val(found).id)
        q == [p EXCEPT !.tracks = [i \in 1..Len(p.tracks) |-> resolved(i)]]
    IN  IF TruthyId(platform_id)
        THEN LET u == AmUpdatePlaylist(p, rem, resps, http)
             IN  [ret |-> u.ret, playlist |-> q, remote |-> u.remote,
                  creates |-> 0, updates |-> 1, sent |-> u.sent, new_id |-> None]
        ELSE LET c == AmCreatePlaylist(p, rem, rid, resps, http)
             IN  IF TruthyId(c.ret)
                 THEN [ret |-> TRUE,
                       playlist |-> PlaylistAddPlatformId(q, AppleMusic, Val(c.ret), now),
                       remote |-> c.remote, creates |-> 1, updates |-> 0,
                       sent |-> c.sent, new_id |-> c.ret]
                 ELSE [ret |-> FALSE, playlist |-> q, remote |-> c.remote,
                       creates |-> 1, updates |-> 0, sent |-> c.sent,
                       new_id |-> c.ret]

\* A mutant of SyncPlaylistToPlatform: the id a create returned is not kept.
SyncPlaylistToPlatformForgetsId(p, rem, rid, resps, http, now) ==
    LET platform_id == GetPlatformId(p, AppleMusic)
    IN  IF TruthyId(platform_id)
        THEN LET u == AmUpdatePlaylist(p, rem, resps, http)
             IN  [ret |-> u.ret, playlist |-> p, remote |-> u.remote,
                  creates |-> 0, updates |-> 1, sent |-> u.sent, new_id |-> None]
        ELSE LET c == AmCreatePlaylist(p, rem, rid, resps, http)
             IN  [ret |-> TruthyId(c.ret), playlist |-> p, remote |-> c.remote,
                  creates |-> 1, updates |-> 0, sent |-> c.sent, new_id |-> None]

\* PlatformBase.sync_playlist_to_platform with the Apple Music adapter.
\* playlist is the caller's object after the call; creates and updates
\* count the calls of create_playlist and update_playlist.
SyncPlaylistToPlatform(p, rem, rid, resps, http, now) ==
    LET platform_id == GetPlatformId(p, AppleMusic)
    IN  IF TruthyId(platform_id)
        THEN LET u == AmUpdatePlaylist(p, rem, resps, http)
             IN  [ret |-> u.ret, playlist |-> p, remote |-> u.remote,
                  creates |-> 0, updates |-> 1, sent |-> u.sent, new_id |-> None]
        ELSE LET c == AmCreatePlaylist(p, rem, rid, resps, http)
             IN  IF TruthyId(c.ret)
                 THEN [ret |-> TRUE,
                       playlist |-> PlaylistAddPlatformId(p, AppleMusic, Val(c.ret), now),
                       remote |-> c.remote, creates |-> 1, updates |-> 0,
                       sent |-> c.sent, new_id |-> c.ret]
                 ELSE [ret |-> FALSE, playlist |-> p, remote |-> c.remote,
                       creates |-> 1, updates |-> 0, sent |-> c.sent,
                       new_id |-> c.ret]

\* PlatformBase.sync_playlist_from_platform with the Apple Music adapter:
\* "if playlist:" is the truthiness of the Playlist, its __len__.
SyncPlaylistFromPlatform(rem, platform_id, http, pid, tid, now) ==
    LET playlist == AmGetPlaylist(rem, platform_id, http, pid, tid, now)
    IN  IF ~IsNone(playlist) /\ PlaylistLen(Val(playlist)) > 0
        THEN Some(PlaylistAddPlatformId(Val(playlist), AppleMusic, platform_id, now))
        ELSE playlist

----------------------------------------------------------------------------
(* manager.py: PlaylistManager *)

\* The record of the last manager call: its name and arguments, whether it
\* returned True / a playlist (ok), the playlist object it produced
\* (returned, or mutated in memory), and what it asked of the adapter and of
\* the storage: the calls of create_playlist, update_playlist and save, the
\* adapter's result, the platform id the loaded playlist carried, the id
\* create_playlist returned, the track list sent,
\* and what search_track returned for each track.
NoCall ==
    [op |-> "none", pid |-> 0, platform |-> "", rid |-> "", ok |-> FALSE,
     produced |-> None, track |-> None, before_id |-> None,
     creates |-> 0, updates |-> 0, saves |-> 0,
     adapter |-> None, new_id |-> None, sent |-> None, found |-> <<>>,
     ids |-> <<>>, dedup |-> FALSE, from_index |-> 0, to_index |-> 0,
     new_name |-> None, request_failed |-> FALSE, track_id |-> 0,
     format |-> "json", path |-> ""]

Started(op, pid) == [NoCall EXCEPT !.op = op, !.pid = pid]

\* The ids the platform hands out for created playlists; "r0" is a
\* playlist made in the library by other means.
RemoteIds == <<"r1", "r2">>

Names == {"n1", "n2"}
TagLists == {<<>>, <<"t1">>}
PlatformNames == {AppleMusic, "spotify"}
PidArgs == 1..MaxPlaylists
Paths == {"f1"}

\* The platform playlist ids a pull asks for: those of the library and one
\* it does not have.
RemoteArgs == DOMAIN remote \cup {"r9"}

\* The tracks callers add: without a platform id, and with the id of a
\* catalog song (a track obtained from search_track).
InputTracks(tid) ==
    { Track(<<"a">>, <<"x">>, None, None, None, tid),
      TrackAddPlatformId(Track(<<"b">>, <<"Y">>, None, None, None, tid),
                         AppleMusic, "s2") }

\* The search responses of a push: none is issued for a track that
\* carries an id.
PushResponses ==
    { HttpFail, HttpData(<<SongById("s3"), SongById("s1")>>) }

ResponsesFor(tracks) ==
    { r \in [1..Len(tracks) -> PushResponses] :
        \A i \in 1..Len(tracks) :
            TruthyId(GetPlatformId(tracks[i], AppleMusic)) => r[i] = HttpFail }

\* PlaylistManager.register_platform
RegisterPlatform ==
    /\ AppleMusic \notin platforms
    /\ platforms' = platforms \cup {AppleMusic}
    /\ last' = [NoCall EXCEPT !.op = "register_platform", !.ok = TRUE]
    /\ UNCHANGED <<files, index, remote, nextPid, nextTid, nextRid, clock, exports,
                   pushCreates>>
    /\ UNCHANGED <<raceVars, pureVars, callerVars>>

\* Time passes between two calls.
Tick ==
    /\ clock < MaxClock
    /\ clock' = clock + 1
    /\ UNCHANGED <<files, index, platforms, remote, nextPid, nextTid, nextRid,
                   exports, pushCreates, last>>
    /\ UNCHANGED <<raceVars, pureVars, callerVars>>

\* PlaylistManager.create_playlist
CreatePlaylist(name, tags, oc) ==
    /\ nextPid <= MaxPlaylists
    /\ LET playlist == Playlist(name, None, <<>>, tags, nextPid, clock)
       IN  /\ files' = SaveFiles(files, playlist, oc)
           /\ index' = SaveIndex(index, playlist, oc)
           /\ last' = [Started("create_playlist", nextPid) EXCEPT
                          !.ok = TRUE, !.produced = Some(playlist), !.saves = 1]
    /\ nextPid' = nextPid + 1
    /\ UNCHANGED <<platforms, remote, nextTid, nextRid, clock, exports,
                   pushCreates>>
    /\ UNCHANGED <<raceVars, pureVars, callerVars>>

\* PlaylistManager.add_track_to_playlist; the caller built the Track.
AddTrackToPlaylist(playlist_id, oc) ==
    /\ nextTid <= MaxTids
    /\ \E track \in InputTracks(nextTid) :
        LET loaded == Load(files, playlist_id)
            call == [Started("add_track_to_playlist", playlist_id) EXCEPT
                        !.track = Some(track)]
        IN  IF IsNone(loaded)
            THEN /\ last' = call
                 /\ UNCHANGED <<files, index>>
            ELSE /\ Len(Val(loaded).tracks) < MaxTracks
                 /\ LET playlist == PlaylistAddTrack(Val(loaded), track, clock)
                    IN  /\ files' = SaveFiles(files, playlist, oc)
                        /\ index' = SaveIndex(index, playlist, oc)
                        /\ last' = [call EXCEPT !.ok = SaveReturns(oc),
                                                !.produced = Some(playlist),
                                                !.saves = 1]
    /\ nextTid' = nextTid + 1
    /\ UNCHANGED <<platforms, remote, nextPid, nextRid, clock, exports,
                   pushCreates>>
    /\ UNCHANGED <<raceVars, pureVars, callerVars>>

\* A mutant of RenamePlaylist: an id that is not stored gets a new record.
RenamePlaylistCreates(playlist_id, new_name, oc) ==
    /\ LET loaded == Load(files, playlist_id)
           call == Started("rename_playlist", playlist_id)
           playlist == IF IsNone(loaded)
                       THEN Playlist(new_name, None, <<>>, <<>>, playlist_id, clock)
                       ELSE [Val(loaded) EXCEPT !.name = new_name]
       IN  /\ files' = SaveFiles(files, playlist, oc)
           /\ index' = SaveIndex(index, playlist, oc)
           /\ last' = [call EXCEPT !.ok = SaveReturns(oc),
                                   !.produced = Some(playlist), !.saves = 1]
    /\ UNCHANGED <<platforms, remote, nextPid, nextTid, nextRid, clock, exports,
                   pushCreates>>
    /\ UNCHANGED <<raceVars, pureVars, callerVars>>

\* PlaylistManager.rename_playlist
RenamePlaylist(playlist_id, new_name, oc) ==
    /\ LET loaded == Load(files, playlist_id)
           call == Started("rename_playlist", playlist_id)
       IN  IF IsNone(loaded)
           THEN /\ last' = call
                /\ UNCHANGED <<files, index>>
           ELSE LET playlist == [Val(loaded) EXCEPT !.name = new_name]
                IN  /\ files' = SaveFiles(files, playlist, oc)
                    /\ index' = SaveIndex(index, playlist, oc)
                    /\ last' = [call EXCEPT !.ok = SaveReturns(oc),
                                            !.produced = Some(playlist),
                                            !.saves = 1]
    /\ UNCHANGED <<platforms, remote, nextPid, nextTid, nextRid, clock, exports,
                   pushCreates>>
    /\ UNCHANGED <<raceVars, pureVars, callerVars>>

\* The loop "for tag in tags: playlist.add_tag(tag)".
RECURSIVE AddTags(_, _, _)
AddTags(p, tags, now) ==
    IF Len(tags) = 0 THEN p
    ELSE AddTags(PlaylistAddTag(p, Head(tags), now), Tail(tags), now)

\* PlaylistManager.add_tags_to_playlist
AddTagsToPlaylist(playlist_id, tags, oc) ==
    /\ LET loaded == Load(files, playlist_id)
           call == Started("add_tags_to_playlist", playlist_id)
       IN  IF IsNone(loaded)
           THEN /\ last' = call
                /\ UNCHANGED <<files, index>>
           ELSE LET playlist == AddTags(Val(loaded), tags, clock)
                IN  /\ files' = SaveFiles(files, playlist, oc)
                    /\ index' = SaveIndex(index, playlist, oc)
                    /\ last' = [call EXCEPT !.ok = SaveReturns(oc),
                                            !.produced = Some(playlist),
                                            !.saves = 1]
    /\ UNCHANGED <<platforms, remote, nextPid, nextTid, nextRid, clock, exports,
                   pushCreates>>
    /\ UNCHANGED <<raceVars, pureVars, callerVars>>

\* What search_track returns for each track of a push; it is not called
\* (None) for a track that carries an id.
SearchResults(tracks, resps) ==
    [i \in 1..Len(tracks) |->
        IF TruthyId(GetPlatformId(tracks[i], AppleMusic)) THEN None
        ELSE SearchTrack(tracks[i].title, tracks[i].artist, resps[i])]

\* create_playlist calls made by pushes of playlist_id that returned True.
CountCreates(pc_, playlist_id, n) ==
    DictSet(pc_, playlist_id,
            (IF playlist_id \in DOMAIN pc_ THEN pc_[playlist_id] ELSE 0) + n)

\* The id the platform hands out next.
NextRemoteId == IF nextRid <= Len(RemoteIds) THEN RemoteIds[nextRid] ELSE ""

\* PlaylistManager.sync_to_platform.  The outcomes of the requests and of
\* the save are chosen where the handler gets to them.
SyncToPlatform(playlist_id, platform_name) ==
    LET loaded == Load(files, playlist_id)
        call == [Started("sync_to_platform", playlist_id) EXCEPT
                    !.platform = platform_name]
    IN  IF IsNone(loaded) \/ platform_name \notin platforms
        THEN /\ last' = call
             /\ UNCHANGED <<files, index, remote, nextRid, pushCreates>>
        ELSE \E resps \in ResponsesFor(Val(loaded).tracks), http \in HttpOutcomes :
             /\ TruthyId(GetPlatformId(Val(loaded), AppleMusic))
                    \/ nextRid <= Len(RemoteIds)
             /\ \E r \in {SyncPlaylistToPlatform(Val(loaded), remote, NextRemoteId,
                                                resps, http, clock)} :
                LET rid == NextRemoteId
                    synced == [call EXCEPT
                                  !.before_id = GetPlatformId(Val(loaded), AppleMusic),
                                  !.adapter = Some(r.ret), !.creates = r.creates,
                                  !.updates = r.updates, !.sent = r.sent,
                                  !.new_id = r.new_id,
                                  !.produced = Some(r.playlist),
                                  !.found = SearchResults(Val(loaded).tracks, resps)]
                IN  /\ \A x \in DOMAIN r.remote :
                           Len(r.remote[x].tracks) <= MaxRemoteTracks
                    /\ remote' = r.remote
                    /\ nextRid' = IF rid \in DOMAIN r.remote
                                  THEN nextRid + 1 ELSE nextRid
                    /\ IF r.ret
                       THEN \E oc \in SaveOutcomes :
                            /\ files' = SaveFiles(files, r.playlist, oc)
                            /\ index' = SaveIndex(index, r.playlist, oc)
                            /\ last' = [synced EXCEPT !.ok = SaveReturns(oc),
                                                      !.saves = 1]
                            /\ pushCreates' =
                                   IF SaveReturns(oc)
                                   THEN CountCreates(pushCreates, playlist_id, r.creates)
                                   ELSE pushCreates
                       ELSE /\ last' = synced
                            /\ UNCHANGED <<files, index, pushCreates>>

SyncTo(playlist_id, platform_name) ==
    /\ SyncToPlatform(playlist_id, platform_name)
    /\ UNCHANGED <<platforms, nextPid, nextTid, clock, exports>>
    /\ UNCHANGED <<raceVars, pureVars, callerVars>>

\* PlaylistManager.sync_from_platform, the save ending in one of outcomes.
SyncFromPlatformIo(platform_name, platform_playlist_id, outcomes) ==
    /\ nextPid <= MaxPlaylists
    /\ LET call == [Started("sync_from_platform", nextPid) EXCEPT
                       !.platform = platform_name, !.rid = platform_playlist_id]
       IN  IF platform_name \notin platforms
           THEN /\ last' = call
                /\ UNCHANGED <<files, index, nextPid, nextTid>>
           ELSE \E http \in HttpOutcomes :
                \E playlist \in {SyncPlaylistFromPlatform(remote, platform_playlist_id,
                                                         http, nextPid, nextTid, clock)} :
                \E failed \in {~(http.first /\ platform_playlist_id \in DOMAIN remote
                                  /\ http.second)} :
                    IF IsNone(playlist)
                    THEN /\ last' = [call EXCEPT !.adapter = Some(FALSE),
                                                 !.request_failed = failed]
                         /\ UNCHANGED <<files, index, nextPid, nextTid>>
                    ELSE \E oc \in outcomes :
                         /\ files' = SaveFiles(files, Val(playlist), oc)
                         /\ index' = SaveIndex(index, Val(playlist), oc)
                         /\ nextPid' = nextPid + 1
                         /\ nextTid' = nextTid + Len(Val(playlist).tracks)
                         /\ last' = [call EXCEPT !.ok = TRUE, !.produced = playlist,
                                                 !.adapter = Some(TRUE), !.saves = 1,
                                                 !.request_failed = failed]
    /\ UNCHANGED <<platforms, remote, nextRid, clock, exports, pushCreates>>
    /\ UNCHANGED <<raceVars, pureVars, callerVars>>

\* PlaylistManager.sync_from_platform
SyncFromPlatform(platform_name, platform_playlist_id) ==
    SyncFromPlatformIo(platform_name, platform_playlist_id, SaveOutcomes)

\* PlaylistManager.export_playlist, format "json"
ExportPlaylist(playlist_id, export_path) ==
    /\ LET loaded == Load(files, playlist_id)
           call == Started("export_playlist", playlist_id)
       IN  IF IsNone(loaded)
           THEN /\ last' = call
                /\ UNCHANGED exports
           ELSE /\ exports' = DictSet(exports, export_path, ToDict(Val(loaded)))
                /\ last' = [call EXCEPT !.ok = TRUE]
    /\ UNCHANGED <<files, index, platforms, remote, nextPid, nextTid, nextRid, clock,
                   pushCreates>>
    /\ UNCHANGED <<raceVars, pureVars, callerVars>>

\* PlaylistManager.import_playlist, format "json"
ImportPlaylist(import_path, oc) ==
    /\ IF import_path \notin DOMAIN exports
       THEN /\ last' = [NoCall EXCEPT !.op = "import_playlist", !.path = import_path]
            /\ UNCHANGED <<files, index>>
       ELSE LET playlist == FromDict(exports[import_path])
            IN  /\ files' = SaveFiles(files, playlist, oc)
                /\ index' = SaveIndex(index, playlist, oc)
                /\ last' = [Started("import_playlist", playlist.playlist_id) EXCEPT
                               !.ok = TRUE, !.produced = Some(playlist), !.saves = 1,
                               !.path = import_path]
    /\ UNCHANGED <<platforms, remote, nextPid, nextTid, nextRid, clock, exports,
                   pushCreates>>
    /\ UNCHANGED <<raceVars, pureVars, callerVars>>

\* The paths of CSV files.  A file is read in the format it was written in:
\* json.load of a CSV file and row["Title"] of a JSON file raise, and
\* import_playlist returns None.
CsvPaths == {"c1"}

\* PlaylistManager.export_playlist, format "csv"
ExportPlaylistCsv(playlist_id, export_path) ==
    /\ LET loaded == Load(files, playlist_id)
           call == [Started("export_playlist", playlist_id) EXCEPT
                       !.format = "csv", !.path = export_path]
       IN  IF IsNone(loaded)
           THEN /\ last' = call
                /\ UNCHANGED exports
           ELSE /\ exports' = DictSet(exports, export_path, CsvExport(Val(loaded).tracks))
                /\ last' = [call EXCEPT !.ok = TRUE]
    /\ UNCHANGED <<files, index, platforms, remote, nextPid, nextTid, nextRid, clock,
                   pushCreates>>
    /\ UNCHANGED <<raceVars, pureVars, callerVars>>

\* PlaylistManager.import_playlist, format "csv": the playlist is named
\* after the file's stem and gets the next uuids.
ImportPlaylistCsv(import_path, oc) ==
    /\ nextPid <= MaxPlaylists
    /\ IF import_path \notin DOMAIN exports
       THEN /\ last' = [NoCall EXCEPT !.op = "import_playlist", !.format = "csv",
                                      !.path = import_path]
            /\ UNCHANGED <<files, index, nextPid, nextTid>>
       ELSE LET tracks == CsvImportTracks(exports[import_path], nextTid)
                playlist == Playlist(import_path, None, tracks, <<>>, nextPid, clock)
            IN  /\ files' = SaveFiles(files, playlist, oc)
                /\ index' = SaveIndex(index, playlist, oc)
                /\ nextPid' = nextPid + 1
                /\ nextTid' = nextTid + Len(tracks)
                /\ last' = [Started("import_playlist", nextPid) EXCEPT
                               !.ok = TRUE, !.produced = Some(playlist), !.saves = 1,
                               !.format = "csv", !.path = import_path]
    /\ UNCHANGED <<platforms, remote, nextRid, clock, exports, pushCreates>>
    /\ UNCHANGED <<raceVars, pureVars, callerVars>>

\* PlaylistManager.get_playlist; the caller keeps the returned object.
GetPlaylist(playlist_id) ==
    /\ held' = Load(files, playlist_id)
    /\ last' = [Started("get_playlist", playlist_id) EXCEPT
                   !.ok = ~IsNone(Load(files, playlist_id)),
                   !.produced = Load(files, playlist_id)]
    /\ UNCHANGED <<files, index, platforms, remote, nextPid, nextTid, nextRid, clock,
                   exports, pushCreates>>
    /\ UNCHANGED <<raceVars, pureVars>>

\* PlaylistManager.update_playlist with the object the caller holds.
UpdatePlaylist(oc) ==
    /\ ~IsNone(held)
    /\ files' = SaveFiles(files, Val(held), oc)
    /\ index' = SaveIndex(index, Val(held), oc)
    /\ last' = [Started("update_playlist", Val(held).playlist_id) EXCEPT
                   !.ok = SaveReturns(oc), !.produced = held, !.saves = 1]
    /\ UNCHANGED <<platforms, remote, nextPid, nextTid, nextRid, clock, exports,
                   pushCreates, held>>
    /\ UNCHANGED <<raceVars, pureVars>>

\* PlaylistManager.delete_playlist
DeletePlaylist(playlist_id, oc) ==
    /\ files' = DeleteFiles(files, playlist_id, oc)
    /\ index' = DeleteIndex(index, playlist_id, oc)
    /\ last' = [Started("delete_playlist", playlist_id) EXCEPT
                   !.ok = DeleteReturns(oc)]
    /\ UNCHANGED <<platforms, remote, nextPid, nextTid, nextRid, clock, exports,
                   pushCreates>>
    /\ UNCHANGED <<raceVars, pureVars, callerVars>>

\* PlaylistManager.remove_track_from_playlist; the outcome of the save is
\* chosen where the handler gets to it.
RemoveTrackFromPlaylist(playlist_id, track_id) ==
    /\ LET loaded == Load(files, playlist_id)
           call == [Started("remove_track_from_playlist", playlist_id) EXCEPT
                       !.track_id = track_id]
       IN  IF IsNone(loaded)
           THEN /\ last' = call
                /\ UNCHANGED <<files, index>>
           ELSE LET r == PlaylistRemoveTrack(Val(loaded), track_id, clock)
                IN  IF r.ret
                    THEN \E oc \in SaveOutcomes :
                         /\ files' = SaveFiles(files, r.playlist, oc)
                         /\ index' = SaveIndex(index, r.playlist, oc)
                         /\ last' = [call EXCEPT !.ok = SaveReturns(oc),
                                                 !.produced = Some(r.playlist),
                                                 !.saves = 1]
                    ELSE /\ last' = [call EXCEPT !.produced = Some(r.playlist)]
                         /\ UNCHANGED <<files, index>>
    /\ UNCHANGED <<platforms, remote, nextPid, nextTid, nextRid, clock, exports,
                   pushCreates>>
    /\ UNCHANGED <<raceVars, pureVars, callerVars>>

\* PlaylistManager.move_track
MoveTrack(playlist_id, from_index, to_index) ==
    /\ LET loaded == Load(files, playlist_id)
           call == [Started("move_track", playlist_id) EXCEPT
                       !.from_index = from_index, !.to_index = to_index]
       IN  IF IsNone(loaded)
           THEN /\ last' = call
                /\ UNCHANGED <<files, index>>
           ELSE LET r == PlaylistMoveTrack(Val(loaded), from_index, to_index, clock)
                IN  IF r.ret
                    THEN \E oc \in SaveOutcomes :
                         /\ files' = SaveFiles(files, r.playlist, oc)
                         /\ index' = SaveIndex(index, r.playlist, oc)
                         /\ last' = [call EXCEPT !.ok = SaveReturns(oc),
                                                 !.produced = Some(r.playlist),
                                                 !.saves = 1]
                    ELSE /\ last' = [call EXCEPT !.produced = Some(r.playlist)]
                         /\ UNCHANGED <<files, index>>
    /\ UNCHANGED <<platforms, remote, nextPid, nextTid, nextRid, clock, exports,
                   pushCreates>>
    /\ UNCHANGED <<raceVars, pureVars, callerVars>>

\* new_name or f"Copy of {original.name}"
CopyName(new_name, original_name) ==
    IF ~IsNone(new_name) /\ Val(new_name) # ""
    THEN Val(new_name)
    ELSE "Copy of " \o original_name

\* A mutant of CopyTracks: the copies get track ids of their own.
CopyTracksFreshIds(tracks) ==
    [i \in 1..Len(tracks) |->
        [TrackFromDict(TrackToDict(tracks[i])) EXCEPT !.track_id = @ + 100]]

\* [Track.from_dict(t.to_dict()) for t in tracks]
CopyTracks(tracks) ==
    [i \in 1..Len(tracks) |-> TrackFromDict(TrackToDict(tracks[i]))]

\* PlaylistManager.duplicate_playlist; pid of the call record is the source.
DuplicatePlaylist(playlist_id, new_name, oc) ==
    /\ nextPid <= MaxPlaylists + MaxCopies
    /\ LET original == Load(files, playlist_id)
           call == [Started("duplicate_playlist", playlist_id) EXCEPT
                       !.new_name = new_name]
       IN  IF IsNone(original)
           THEN /\ last' = call
                /\ UNCHANGED <<files, index, nextPid>>
           ELSE LET duplicate == Playlist(CopyName(new_name, Val(original).name),
                                          Val(original).description,
                                          CopyTracks(Val(original).tracks),
                                          Val(original).tags, nextPid, clock)
                IN  /\ files' = SaveFiles(files, duplicate, oc)
                    /\ index' = SaveIndex(index, duplicate, oc)
                    /\ nextPid' = nextPid + 1
                    /\ last' = [call EXCEPT !.ok = SaveReturns(oc),
                                            !.produced = Some(duplicate),
                                            !.saves = 1]
    /\ UNCHANGED <<platforms, remote, nextTid, nextRid, clock, exports,
                   pushCreates>>
    /\ UNCHANGED <<raceVars, pureVars, callerVars>>

\* track_hash = f"{track.title.lower()}|{track.artist.lower()}"
TrackHash(track) == Lower(track.title) \o <<"|">> \o Lower(track.artist)

\* merge_playlists, the loop "for track in playlist.tracks"; acc holds
\* all_tracks and seen_tracks.
RECURSIVE MergeTracks(_, _, _)
MergeTracks(tracks, remove_duplicates, acc) ==
    IF Len(tracks) = 0 THEN acc
    ELSE LET track == Head(tracks)
         IN  IF remove_duplicates /\ TrackHash(track) \in acc.seen_tracks
             THEN MergeTracks(Tail(tracks), remove_duplicates, acc)
             ELSE MergeTracks(Tail(tracks), remove_duplicates,
                      [all_tracks |-> Append(acc.all_tracks,
                                             TrackFromDict(TrackToDict(track))),
                       seen_tracks |-> IF remove_duplicates
                                       THEN acc.seen_tracks \cup {TrackHash(track)}
                                       ELSE acc.seen_tracks])

\* A mutant of MergeAll: an id that does not resolve ends the merge.
RECURSIVE MergeAllStopsAtMissing(_, _, _, _)
MergeAllStopsAtMissing(fs, playlist_ids, remove_duplicates, acc) ==
    IF Len(playlist_ids) = 0 THEN acc
    ELSE LET playlist == Load(fs, Head(playlist_ids))
         IN  IF IsNone(playlist)
             THEN acc
             ELSE MergeAllStopsAtMissing(fs, Tail(playlist_ids), remove_duplicates,
                      MergeTracks(Val(playlist).tracks, remove_duplicates, acc))

\* merge_playlists, the loop "for pid in playlist_ids"
RECURSIVE MergeAll(_, _, _, _)
MergeAll(fs, playlist_ids, remove_duplicates, acc) ==
    IF Len(playlist_ids) = 0 THEN acc
    ELSE LET playlist == Load(fs, Head(playlist_ids))
         IN  IF IsNone(playlist)
             THEN MergeAll(fs, Tail(playlist_ids), remove_duplicates, acc)
             ELSE MergeAll(fs, Tail(playlist_ids), remove_duplicates,
                           MergeTracks(Val(playlist).tracks, remove_duplicates, acc))

\* PlaylistManager.merge_playlists
MergePlaylists(playlist_ids, new_name, remove_duplicates, oc) ==
    /\ nextPid <= MaxPlaylists + MaxCopies
    /\ \E m \in {MergeAll(files, playlist_ids, remove_duplicates,
                          [all_tracks |-> <<>>, seen_tracks |-> {}])} :
        LET merged == Playlist(new_name, None, m.all_tracks, <<>>, nextPid, clock)
        IN  /\ files' = SaveFiles(files, merged, oc)
            /\ index' = SaveIndex(index, merged, oc)
            /\ last' = [Started("merge_playlists", nextPid) EXCEPT
                           !.ids = playlist_ids, !.dedup = remove_duplicates,
                           !.ok = SaveReturns(oc), !.produced = Some(merged),
                           !.saves = 1]
    /\ nextPid' = nextPid + 1
    /\ UNCHANGED <<platforms, remote, nextTid, nextRid, clock, exports,
                   pushCreates>>
    /\ UNCHANGED <<raceVars, pureVars, callerVars>>

\* A caller of the adapter: platform.delete_playlist(platform_id).
PlatformDeletePlaylist(platform_id, request_ok) ==
    /\ \E r \in {AmDeletePlaylist(remote, platform_id, request_ok)} :
        /\ remote' = r.remote
        /\ last' = [NoCall EXCEPT !.op = "platform_delete_playlist",
                                  !.platform = AppleMusic, !.rid = platform_id,
                                  !.adapter = Some(r.ret),
                                  !.request_failed = ~request_ok]
    /\ UNCHANGED <<files, index, platforms, nextPid, nextTid, nextRid, clock, exports,
                   pushCreates>>
    /\ UNCHANGED <<raceVars, pureVars, callerVars>>

----------------------------------------------------------------------------
(* Pure-function specifications *)

Pending == [done |-> FALSE]
Result(v) == [done |-> TRUE, value |-> v]

Parked == [fn |-> "none"]

MgrParked ==
    /\ files = EmptyDict /\ index = EmptyDict /\ platforms = {}
    /\ remote = EmptyDict /\ nextPid = 1 /\ nextTid = 1 /\ nextRid = 1
    /\ clock = 0 /\ exports = EmptyDict /\ pushCreates = EmptyDict /\ last = NoCall

RaceParked == pc = <<>> /\ job = <<>> /\ lidx = <<>>

PureParked == arg = Parked /\ out = Pending

TitleAlphabet == {"a", "A", " "}
IsrcValues == {None, Some(<<>>), Some(<<"U">>), Some(<<"u">>)}
MatchArtists == {<<"x">>, <<" ", "X">>, <<"y">>}
OtherTitles == {<<>>, <<"a">>, <<"A", " ">>, <<"a", "a">>}

InitMatch ==
    /\ MgrParked /\ RaceParked /\ budget = 0 /\ held = None
    /\ \E ta \in StrsUpTo(TitleAlphabet, MaxLen), tb \in OtherTitles,
          aa \in MatchArtists, ab \in MatchArtists,
          ia \in IsrcValues, ib \in IsrcValues, strict \in BOOLEAN :
            arg = [fn |-> "matches",
                   a |-> Track(ta, aa, None, None, ia, 1),
                   b |-> Track(tb, ab, None, None, ib, 2),
                   strict |-> strict]
    /\ out = Pending

DoMatches ==
    /\ arg.fn = "matches" /\ ~out.done
    /\ out' = Result(Matches(arg.a, arg.b, arg.strict))
    /\ UNCHANGED <<arg, mgrVars, raceVars, budget, callerVars>>

NextMatch == DoMatches

SpecMatch == InitMatch /\ [][NextMatch]_vars

QueryAlphabet == {"a", "B"}
QueryArtists == {<<>>, <<"x">>, <<"Y">>}

InitSearch ==
    /\ MgrParked /\ RaceParked /\ budget = 0 /\ held = None
    /\ \E t \in StrsUpTo(QueryAlphabet, MaxLen), a \in QueryArtists,
          r \in SearchResponses(MaxResults) :
            arg = [fn |-> "search_track", title |-> t, artist |-> a, resp |-> r]
    /\ out = Pending

DoSearch ==
    /\ arg.fn = "search_track" /\ ~out.done
    /\ out' = Result(SearchTrack(arg.title, arg.artist, arg.resp))
    /\ UNCHANGED <<arg, mgrVars, raceVars, budget, callerVars>>

NextSearch == DoSearch

SpecSearch == InitSearch /\ [][NextSearch]_vars

----------------------------------------------------------------------------
(* Serialization: to_dict / from_dict and save / load *)

\* Tracks with every field set and with the required fields only.
FullTrack(tid) ==
    [TrackAddPlatformId(Track(<<"a">>, <<"x">>, Some(<<"l">>), Some(5), Some(<<"U">>), tid),
                        AppleMusic, "s1")
        EXCEPT !.additional_artists = <<<<"y">>, <<"z">>>>]

BareTrack(tid) == Track(<<"b">>, <<"y">>, None, None, None, tid)

SerialTracks == {FullTrack("k1"), BareTrack("k2"), BareTrack("k1")}

\* Playlist ids as strings: a uuid-like id and the stem of the index file.
SerialIds == {"p1", IndexStem}

SerialPlaylists ==
    { [name |-> n, description |-> d, tracks |-> ts, playlist_id |-> id,
       created_at |-> 0, updated_at |-> u, platform_ids |-> pids, tags |-> tags] :
        n \in Names, d \in {None, Some(<<"d">>)},
        ts \in SeqsUpTo(SerialTracks, MaxTracks), id \in SerialIds,
        u \in 0..MaxClock, pids \in {EmptyDict, AppleMusic :> "r1"},
        tags \in {<<>>, <<"t1">>, <<"t2", "t1">>} }

\* The directory before the save: fresh, or holding another playlist.
SerialDirs ==
    {FreshDir, DirSave(FreshDir, Playlist("n1", None, <<BareTrack("k3")>>, <<>>, "p2", 0))}

InitSerial ==
    /\ MgrParked /\ RaceParked /\ budget = 0 /\ held = None
    /\ \E p \in SerialPlaylists, dir \in SerialDirs,
          fn \in {"round_trip", "from_dict_twice"} :
            arg = [fn |-> fn, playlist |-> p, dir |-> dir]
    /\ out = Pending

\* Playlist.from_dict(p.to_dict()), and storage.save(p) followed by
\* storage.load(p.playlist_id).
DoRoundTrip ==
    /\ arg.fn = "round_trip" /\ ~out.done
    /\ out' = Result([from_dict |-> FromDict(ToDict(arg.playlist)),
                      loaded |-> DirLoad(DirSave(arg.dir, arg.playlist),
                                         arg.playlist.playlist_id)])
    /\ UNCHANGED <<arg, mgrVars, raceVars, budget, callerVars>>

\* data = p.to_dict(); Playlist.from_dict(data); Playlist.from_dict(data)
DoFromDictTwice ==
    /\ arg.fn = "from_dict_twice" /\ ~out.done
    /\ LET data == ToDict(arg.playlist)
       IN  out' = Result([first |-> FromDict(data),
                          data |-> FromDictData(data),
                          second |-> FromDict(FromDictData(data))])
    /\ UNCHANGED <<arg, mgrVars, raceVars, budget, callerVars>>

NextSerial == DoRoundTrip \/ DoFromDictTwice

SpecSerial == InitSerial /\ [][NextSerial]_vars

----------------------------------------------------------------------------
(* CSV export followed by CSV import *)

\* Valid tracks: optional fields present or absent, durations from 0 up to
\* two digits, up to two additional artists.
CsvDurations == {None, Some(0), Some(7), Some(12)}
CsvArtistLists == {<<>>, <<<<"y">>>>, <<<<"y">>, <<"z", "w">>>>}

CsvTracks ==
    { [Track(<<"a">>, <<"x">>, album, duration_ms, isrc, 1)
          EXCEPT !.additional_artists = more] :
        album \in {None, Some(<<"l">>)}, duration_ms \in CsvDurations,
        isrc \in {None, Some(<<"U">>)}, more \in CsvArtistLists }

InitCsv ==
    /\ MgrParked /\ RaceParked /\ budget = 0 /\ held = None
    /\ \E tracks \in SeqsUpTo(CsvTracks, MaxTracks) :
            arg = [fn |-> "csv_round_trip", tracks |-> tracks]
    /\ out = Pending

DoCsvRoundTrip ==
    /\ arg.fn = "csv_round_trip" /\ ~out.done
    /\ out' = Result(CsvImportTracks(CsvExport(arg.tracks), 2))
    /\ UNCHANGED <<arg, mgrVars, raceVars, budget, callerVars>>

NextCsv == DoCsvRoundTrip

SpecCsv == InitCsv /\ [][NextCsv]_vars

----------------------------------------------------------------------------
(* The manager in one process *)

\* A playlist of the platform library that this program did not create.
ForeignRemote == "r0" :> [name |-> "n2", tracks |-> <<"s3", "s1">>]

\* A JSON file exported by another installation.
ForeignExport ==
    "f1" :> ToDict(Playlist("n2", None,
                            <<Track(<<"a">>, <<"x">>, None, None, None, 8)>>,
                            <<"t1">>, 9, 0))

Init ==
    /\ files = EmptyDict /\ index = EmptyDict /\ platforms = {}
    /\ remote = ForeignRemote
    /\ nextPid = 1 /\ nextTid = 1 /\ nextRid = 1 /\ clock = 0
    /\ exports = ForeignExport /\ pushCreates = EmptyDict /\ last = NoCall
    /\ budget = MaxCalls /\ held = None
    /\ RaceParked /\ PureParked

Call ==
    \/ \E name \in Names, tags \in TagLists, oc \in SaveOutcomes :
           CreatePlaylist(name, tags, oc)
    \/ \E pid \in PidArgs, oc \in SaveOutcomes : AddTrackToPlaylist(pid, oc)
    \/ \E pid \in PidArgs, name \in Names, oc \in SaveOutcomes :
           RenamePlaylist(pid, name, oc)
    \/ \E pid \in PidArgs, tags \in TagLists, oc \in SaveOutcomes :
           AddTagsToPlaylist(pid, tags, oc)
    \/ \E pid \in PidArgs, pn \in PlatformNames : SyncTo(pid, pn)
    \/ \E pn \in PlatformNames, rid \in RemoteArgs : SyncFromPlatform(pn, rid)
    \/ \E pid \in PidArgs, path \in Paths : ExportPlaylist(pid, path)
    \/ \E path \in Paths, oc \in SaveOutcomes : ImportPlaylist(path, oc)

Next ==
    \/ RegisterPlatform /\ UNCHANGED budget
    \/ Tick /\ UNCHANGED budget
    \/ budget > 0 /\ budget' = budget - 1 /\ Call

Spec == Init /\ [][Next]_vars

----------------------------------------------------------------------------
(* Push-sync of one stored playlist *)

\* A stored playlist made of the given tracks, created at time 0.
RECURSIVE StoredTracks(_, _)
StoredTracks(choice, n) ==
    IF n = 0 THEN <<>>
    ELSE Append(StoredTracks(choice, n - 1), choice[n])

TrackChoices(n) ==
    UNION { {c \in [1..k -> UNION {InputTracks(i) : i \in 1..k}] :
                \A i \in 1..k : c[i].track_id = i} : k \in 0..n }

InitPush ==
    /\ \E c \in TrackChoices(MaxTracks) :
        LET p == Playlist("n1", None, StoredTracks(c, Len(c)), <<>>, 1, 0)
        IN  /\ files = 1 :> ToDict(p)
            /\ index = 1 :> Summary(p)
            /\ nextTid = Len(c) + 1
    /\ platforms = {AppleMusic}
    /\ remote = EmptyDict
    /\ nextPid = 2 /\ nextRid = 1 /\ clock = 1
    /\ exports = EmptyDict /\ pushCreates = EmptyDict /\ last = NoCall
    /\ budget = 0 /\ held = None
    /\ RaceParked /\ PureParked

NextPush ==
    /\ \E pid \in PidArgs, pn \in PlatformNames : SyncTo(pid, pn)
    /\ UNCHANGED budget

SpecPush == InitPush /\ [][NextPush]_vars

----------------------------------------------------------------------------
(* Pull-sync into an empty storage *)

InitPull ==
    /\ files = EmptyDict /\ index = EmptyDict /\ platforms = {}
    /\ remote = ForeignRemote
    /\ nextPid = 1 /\ nextTid = 1 /\ nextRid = 1 /\ clock = 0
    /\ exports = EmptyDict /\ pushCreates = EmptyDict /\ last = NoCall
    /\ budget = 0 /\ held = None
    /\ RaceParked /\ PureParked

NextPull ==
    /\ \/ RegisterPlatform
       \/ Tick
       \/ \E pn \in PlatformNames, rid \in RemoteArgs : SyncFromPlatform(pn, rid)
    /\ UNCHANGED budget

SpecPull == InitPull /\ [][NextPull]_vars

----------------------------------------------------------------------------
(* Two processes on one storage directory.  Process i works on the playlist *)
(* with id i; JSONStorage.save and JSONStorage.delete are the sequences of  *)
(* file operations the code performs, and the two processes interleave     *)
(* between any two of them.                                                *)

Procs == {1, 2}
MaxOps == 2

\* A process between two manager calls, with ops calls left to make.
Idle(ops) == [op |-> "none", playlist |-> None, left |-> ops]

InitRace ==
    /\ files = EmptyDict /\ index = EmptyDict /\ platforms = {}
    /\ remote = EmptyDict /\ nextPid = 1 /\ nextTid = 1 /\ nextRid = 1
    /\ clock = 0 /\ exports = EmptyDict /\ pushCreates = EmptyDict /\ last = NoCall
    /\ budget = 0 /\ held = None
    /\ pc = [i \in Procs |-> "idle"]
    /\ job = [i \in Procs |-> Idle(MaxOps)]
    /\ lidx = [i \in Procs |-> EmptyDict]
    /\ PureParked

RaceFrame ==
    UNCHANGED <<platforms, remote, nextPid, nextTid, nextRid, clock, exports,
                pushCreates, last, budget, pureVars, callerVars>>

\* PlaylistManager.create_playlist up to its call of storage.save
RaceCreate(i, name) ==
    /\ pc[i] = "idle" /\ job[i].left > 0
    /\ i \notin DOMAIN files
    /\ job' = [job EXCEPT ![i] = [op |-> "save",
                                  playlist |-> Some(Playlist(name, None, <<>>, <<>>,
                                                             i, clock)),
                                  left |-> job[i].left - 1]]
    /\ pc' = [pc EXCEPT ![i] = "save_file"]
    /\ UNCHANGED <<files, index, lidx>>
    /\ RaceFrame

\* PlaylistManager.rename_playlist up to its call of storage.save
RaceRename(i, new_name) ==
    /\ pc[i] = "idle" /\ job[i].left > 0
    /\ \E loaded \in {Load(files, i)} :
        IF IsNone(loaded)
        THEN /\ job' = [job EXCEPT ![i] = Idle(job[i].left - 1)]
             /\ UNCHANGED pc
        ELSE /\ job' = [job EXCEPT ![i] =
                           [op |-> "save",
                            playlist |-> Some([Val(loaded) EXCEPT !.name = new_name]),
                            left |-> job[i].left - 1]]
             /\ pc' = [pc EXCEPT ![i] = "save_file"]
    /\ UNCHANGED <<files, index, lidx>>
    /\ RaceFrame

\* PlaylistManager.delete_playlist up to the first file operation
RaceDelete(i) ==
    /\ pc[i] = "idle" /\ job[i].left > 0
    /\ job' = [job EXCEPT ![i] = [op |-> "delete", playlist |-> None,
                                  left |-> job[i].left - 1]]
    /\ pc' = [pc EXCEPT ![i] = "delete_file"]
    /\ UNCHANGED <<files, index, lidx>>
    /\ RaceFrame

\* JSONStorage.save: json.dump(playlist.to_dict(), f)
SaveWriteFile(i) ==
    /\ pc[i] = "save_file"
    /\ files' = SaveFiles(files, Val(job[i].playlist), "ok")
    /\ pc' = [pc EXCEPT ![i] = "save_load_index"]
    /\ UNCHANGED <<index, job, lidx>>
    /\ RaceFrame

\* JSONStorage.save: index = self._load_index()
SaveLoadIndex(i) ==
    /\ pc[i] = "save_load_index"
    /\ lidx' = [lidx EXCEPT ![i] = index]
    /\ pc' = [pc EXCEPT ![i] = "save_index"]
    /\ UNCHANGED <<files, index, job>>
    /\ RaceFrame

\* JSONStorage.save: index[playlist_id] = {...}; self._save_index(index)
SaveStoreIndex(i) ==
    /\ pc[i] = "save_index"
    /\ index' = SaveIndex(lidx[i], Val(job[i].playlist), "ok")
    /\ pc' = [pc EXCEPT ![i] = "idle"]
    /\ UNCHANGED <<files, job, lidx>>
    /\ RaceFrame

\* JSONStorage.delete: if playlist_path.exists(): playlist_path.unlink()
DeleteUnlink(i) ==
    /\ pc[i] = "delete_file"
    /\ files' = DictDel(files, i)
    /\ pc' = [pc EXCEPT ![i] = "delete_load_index"]
    /\ UNCHANGED <<index, job, lidx>>
    /\ RaceFrame

\* JSONStorage.delete: index = self._load_index(); if playlist_id in index
DeleteLoadIndex(i) ==
    /\ pc[i] = "delete_load_index"
    /\ lidx' = [lidx EXCEPT ![i] = index]
    /\ pc' = [pc EXCEPT ![i] = IF i \in DOMAIN index THEN "delete_index" ELSE "idle"]
    /\ UNCHANGED <<files, index, job>>
    /\ RaceFrame

\* JSONStorage.delete: del index[playlist_id]; self._save_index(index)
DeleteStoreIndex(i) ==
    /\ pc[i] = "delete_index"
    /\ index' = DictDel(lidx[i], i)
    /\ pc' = [pc EXCEPT ![i] = "idle"]
    /\ UNCHANGED <<files, job, lidx>>
    /\ RaceFrame

NextRace ==
    \E i \in Procs :
        \/ \E name \in Names : RaceCreate(i, name)
        \/ \E name \in Names : RaceRename(i, name)
        \/ RaceDelete(i)
        \/ SaveWriteFile(i)
        \/ SaveLoadIndex(i)
        \/ SaveStoreIndex(i)
        \/ DeleteUnlink(i)
        \/ DeleteLoadIndex(i)
        \/ DeleteStoreIndex(i)

SpecRace == InitRace /\ [][NextRace]_vars

----------------------------------------------------------------------------
(* Editing one stored playlist: every call spends one unit of budget, so  *)
(* a step that changes budget is a manager call.                          *)

\* Indices callers pass to move_track, and track ids they pass to
\* remove_track_from_playlist; 0 is the id of no track.
IndexArgs == -1..MaxTracks
TrackIdArgs == 0..MaxTids

InitEdit ==
    /\ \E c \in TrackChoices(MaxTracks) :
        LET p == Playlist("n1", None, StoredTracks(c, Len(c)), <<>>, 1, 0)
        IN  /\ files = 1 :> ToDict(p)
            /\ index = 1 :> Summary(p)
            /\ nextTid = Len(c) + 1
    /\ platforms = {AppleMusic}
    /\ remote = EmptyDict
    /\ nextPid = 2 /\ nextRid = 1 /\ clock = 0
    /\ exports = EmptyDict /\ pushCreates = EmptyDict /\ last = NoCall
    /\ budget = MaxCalls /\ held = None
    /\ RaceParked /\ PureParked

EditCall ==
    \/ \E pid \in PidArgs, oc \in SaveOutcomes : AddTrackToPlaylist(pid, oc)
    \/ \E pid \in PidArgs, tid \in TrackIdArgs : RemoveTrackFromPlaylist(pid, tid)
    \/ \E pid \in PidArgs, i \in IndexArgs, j \in IndexArgs : MoveTrack(pid, i, j)
    \/ \E pid \in PidArgs, name \in Names, oc \in SaveOutcomes :
           RenamePlaylist(pid, name, oc)
    \/ \E pid \in PidArgs, tags \in TagLists, oc \in SaveOutcomes :
           AddTagsToPlaylist(pid, tags, oc)
    \/ \E pid \in PidArgs, pn \in PlatformNames : SyncTo(pid, pn)
    \/ \E pid \in PidArgs : GetPlaylist(pid)
    \/ \E oc \in SaveOutcomes : UpdatePlaylist(oc)
    \/ \E pid \in PidArgs, oc \in DeleteOutcomes : DeletePlaylist(pid, oc)

NextEdit ==
    \/ Tick /\ UNCHANGED budget
    \/ budget > 0 /\ budget' = budget - 1 /\ EditCall

SpecEdit == InitEdit /\ [][NextEdit]_vars

----------------------------------------------------------------------------
(* Building a library from an empty storage: create, tag, duplicate and   *)
(* merge.                                                                 *)

\* Tag lists callers pass, with a repeated value among them.
TagArgs == {<<>>, <<"t1">>, <<"t2", "t1">>, <<"t1", "t1">>}

\* The new_name arguments of duplicate_playlist.
CopyNameArgs == {None, Some(""), Some("n2")}

\* The ids of stored playlists and one that is not stored.
StoredOrNot == DOMAIN files \cup {0}

MergeArgs == SeqsUpTo(1..(MaxPlaylists + MaxCopies), MaxMerge)

InitTags ==
    /\ files = EmptyDict /\ index = EmptyDict /\ platforms = {}
    /\ remote = EmptyDict
    /\ nextPid = 1 /\ nextTid = 1 /\ nextRid = 1 /\ clock = 0
    /\ exports = EmptyDict /\ pushCreates = EmptyDict /\ last = NoCall
    /\ budget = MaxCalls /\ held = None
    /\ RaceParked /\ PureParked

TagsCall ==
    \/ \E name \in Names, tags \in TagArgs, oc \in SaveOutcomes :
           CreatePlaylist(name, tags, oc)
    \/ \E pid \in StoredOrNot, tags \in TagArgs, oc \in SaveOutcomes :
           AddTagsToPlaylist(pid, tags, oc)
    \/ \E pid \in StoredOrNot, new_name \in CopyNameArgs, oc \in SaveOutcomes :
           DuplicatePlaylist(pid, new_name, oc)
    \/ \E ids \in MergeArgs, name \in Names, rd \in BOOLEAN, oc \in SaveOutcomes :
           MergePlaylists(ids, name, rd, oc)

NextTags == budget > 0 /\ budget' = budget - 1 /\ TagsCall

SpecTags == InitTags /\ [][NextTags]_vars

----------------------------------------------------------------------------
(* Duplicating a stored playlist and editing the source and the copies.   *)

InitCopy ==
    /\ \E c \in TrackChoices(MaxTracks) :
        LET p == Playlist("n1", None, StoredTracks(c, Len(c)), <<"t1">>,
                          MaxPlaylists, 0)
        IN  /\ files = MaxPlaylists :> ToDict(p)
            /\ index = MaxPlaylists :> Summary(p)
            /\ nextTid = Len(c) + 1
    /\ platforms = {}
    /\ remote = EmptyDict
    /\ nextPid = MaxPlaylists + 1 /\ nextRid = 1 /\ clock = 0
    /\ exports = EmptyDict /\ pushCreates = EmptyDict /\ last = NoCall
    /\ budget = MaxCalls /\ held = None
    /\ RaceParked /\ PureParked

CopyCall ==
    \/ \E pid \in StoredOrNot, new_name \in CopyNameArgs, oc \in SaveOutcomes :
           DuplicatePlaylist(pid, new_name, oc)
    \/ \E pid \in StoredOrNot, oc \in SaveOutcomes : AddTrackToPlaylist(pid, oc)
    \/ \E pid \in StoredOrNot, name \in Names, oc \in SaveOutcomes :
           RenamePlaylist(pid, name, oc)

NextCopy == budget > 0 /\ budget' = budget - 1 /\ CopyCall

SpecCopy == InitCopy /\ [][NextCopy]_vars

----------------------------------------------------------------------------
(* Merging two stored playlists.  The stored ids are 1 and 2 and the next *)
(* uuid is the last one the model hands out, so a behaviour makes one     *)
(* merge.                                                                 *)

\* The tracks of the stored playlists: two that differ in case only, and
\* two whose titles and artists contain the character "|".
MergePool(tid) ==
    { Track(<<"a">>, <<"x">>, None, None, None, tid),
      Track(<<"A">>, <<"X">>, None, None, None, tid),
      Track(<<"a", "|", "b">>, <<"x">>, None, None, None, tid),
      Track(<<"a">>, <<"b", "|", "x">>, None, None, None, tid) }

\* Track lists of at most n tracks with the track ids first + 1, first + 2, ...
PoolChoices(first, n) ==
    UNION { {c \in [1..k -> UNION {MergePool(first + i) : i \in 1..k}] :
                \A i \in 1..k : c[i].track_id = first + i} : k \in 0..n }

\* The playlist_ids arguments of merge_playlists; 0 is not stored.
MergeIds == SeqsUpTo({0, 1, 2}, MaxMerge)

InitMerge ==
    /\ \E c1 \in PoolChoices(0, MaxTracks),
          c2 \in {c \in PoolChoices(MaxTracks, MaxTracks) :
                     \A i \in DOMAIN c : c[i].artist = <<"x">>} :
        LET p1 == Playlist("n1", None, StoredTracks(c1, Len(c1)), <<"t1">>, 1, 0)
            p2 == Playlist("n2", None, StoredTracks(c2, Len(c2)), <<>>, 2, 0)
        IN  /\ files = (1 :> ToDict(p1)) @@ (2 :> ToDict(p2))
            /\ index = (1 :> Summary(p1)) @@ (2 :> Summary(p2))
    /\ nextTid = 2 * MaxTracks + 1
    /\ platforms = {}
    /\ remote = EmptyDict
    /\ nextPid = MaxPlaylists + MaxCopies /\ nextRid = 1 /\ clock = 1
    /\ exports = EmptyDict /\ pushCreates = EmptyDict /\ last = NoCall
    /\ budget = 0 /\ held = None
    /\ RaceParked /\ PureParked

NextMerge ==
    /\ \E ids \in MergeIds, rd \in BOOLEAN, oc \in SaveOutcomes :
           MergePlaylists(ids, "n1", rd, oc)
    /\ UNCHANGED budget

SpecMerge == InitMerge /\ [][NextMerge]_vars

----------------------------------------------------------------------------
(* The manager's operations on a library, every save and delete without   *)
(* an I/O error.                                                           *)

InitLib ==
    /\ \E c \in {x \in TrackChoices(MaxTracks) :
                    Len(x) = MaxTracks /\ \A k \in DOMAIN x : x[k].title = <<"a">>} :
        LET p == Playlist("n1", None, StoredTracks(c, Len(c)), <<"t1">>, 1, 0)
        IN  /\ files = 1 :> ToDict(p)
            /\ index = 1 :> Summary(p)
            /\ nextTid = Len(c) + 1
    /\ platforms = {AppleMusic}
    /\ remote = ForeignRemote
    /\ nextPid = 2 /\ nextRid = 1 /\ clock = 0
    /\ exports = EmptyDict /\ pushCreates = EmptyDict /\ last = NoCall
    /\ budget = MaxCalls /\ held = None
    /\ RaceParked /\ PureParked

\* The call that just returned saved without error, if it saved at all:
\* remove_track_from_playlist and move_track return what save returned.
SavedIfSaving == last.saves = 1 => last.ok

LibCall ==
    \/ \E tags \in TagLists : CreatePlaylist("n2", tags, "ok")
    \/ \E pid \in DOMAIN files : AddTrackToPlaylist(pid, "ok")
    \/ \E pid \in DOMAIN files, tid \in TrackIdArgs :
           RemoveTrackFromPlaylist(pid, tid) /\ SavedIfSaving'
    \/ \E pid \in DOMAIN files : MoveTrack(pid, 0, 1) /\ SavedIfSaving'
    \/ \E pid \in DOMAIN files : RenamePlaylist(pid, "n2", "ok")
    \/ \E pid \in DOMAIN files : AddTagsToPlaylist(pid, <<"t2">>, "ok")
    \/ \E pid \in DOMAIN files : DuplicatePlaylist(pid, None, "ok")
    \/ \E b \in StoredOrNot, rd \in BOOLEAN :
           MergePlaylists(<<1, b>>, "n2", rd, "ok")
    \/ \E pid \in StoredOrNot : DeletePlaylist(pid, "ok")
    \/ \E pid \in DOMAIN files : GetPlaylist(pid)
    \/ UpdatePlaylist("ok")
    \/ \E pid \in DOMAIN files, path \in Paths : ExportPlaylist(pid, path)
    \/ \E path \in Paths : ImportPlaylist(path, "ok")
    \/ SyncFromPlatformIo(AppleMusic, "r0", {"ok"})

NextLib == budget > 0 /\ budget' = budget - 1 /\ LibCall

SpecLib == InitLib /\ [][NextLib]_vars

----------------------------------------------------------------------------
(* Exporting a stored playlist, changing it, and importing the file.      *)

ImportCall ==
    \/ \E pid \in StoredOrNot, path \in Paths : ExportPlaylist(pid, path)
    \/ \E pid \in StoredOrNot, path \in CsvPaths : ExportPlaylistCsv(pid, path)
    \/ \E path \in Paths, oc \in SaveOutcomes : ImportPlaylist(path, oc)
    \/ \E path \in CsvPaths, oc \in SaveOutcomes : ImportPlaylistCsv(path, oc)
    \/ \E pid \in StoredOrNot, oc \in SaveOutcomes : AddTrackToPlaylist(pid, oc)
    \/ \E pid \in StoredOrNot, oc \in SaveOutcomes : RenamePlaylist(pid, "n2", oc)
    \/ \E pid \in StoredOrNot, oc \in DeleteOutcomes : DeletePlaylist(pid, oc)

NextImport == budget > 0 /\ budget' = budget - 1 /\ ImportCall

SpecImport == InitEdit /\ [][NextImport]_vars

----------------------------------------------------------------------------
(* Reordering one stored playlist of MaxTracks + 1 tracks, so that a move *)
(* passes over more than one other track.                                 *)

InitReorder ==
    /\ LET ts == [k \in 1..(MaxTracks + 1) |->
                     Track(<<"a">>, <<"x">>, None, None, None, k)]
           p == Playlist("n1", None, ts, <<>>, 1, 0)
       IN  /\ files = 1 :> ToDict(p)
           /\ index = 1 :> Summary(p)
    /\ nextTid = MaxTracks + 2
    /\ platforms = {}
    /\ remote = EmptyDict
    /\ nextPid = 2 /\ nextRid = 1 /\ clock = 0
    /\ exports = EmptyDict /\ pushCreates = EmptyDict /\ last = NoCall
    /\ budget = 0 /\ held = None
    /\ RaceParked /\ PureParked

NextReorder ==
    /\ \E i \in IndexArgs, j \in IndexArgs : MoveTrack(1, i, j)
    /\ UNCHANGED budget

SpecReorder == InitReorder /\ [][NextReorder]_vars

----------------------------------------------------------------------------
(* Removing tracks of one stored playlist in which a track_id can occur   *)
(* more than once, as it does after a playlist is merged with itself.     *)

RemovePool ==
    { Track(<<"a">>, <<"x">>, None, None, None, 1),
      Track(<<"b">>, <<"y">>, None, None, None, 1),
      Track(<<"a">>, <<"x">>, None, None, None, 2) }

InitRemove ==
    /\ \E ts \in {x \in SeqsUpTo(RemovePool, MaxTracks + 1) : Len(x) = MaxTracks + 1} :
        LET p == Playlist("n1", None, ts, <<>>, 1, 0)
        IN  /\ files = 1 :> ToDict(p)
            /\ index = 1 :> Summary(p)
    /\ nextTid = MaxTids + 1
    /\ platforms = {}
    /\ remote = EmptyDict
    /\ nextPid = 2 /\ nextRid = 1 /\ clock = 0
    /\ exports = EmptyDict /\ pushCreates = EmptyDict /\ last = NoCall
    /\ budget = 0 /\ held = None
    /\ RaceParked /\ PureParked

NextRemove ==
    /\ \/ Tick
       \/ \E pid \in StoredOrNot, tid \in TrackIdArgs : RemoveTrackFromPlaylist(pid, tid)
    /\ UNCHANGED budget

SpecRemove == InitRemove /\ [][NextRemove]_vars

----------------------------------------------------------------------------
(* Moving tracks of one stored playlist: every step but Tick is a         *)
(* move_track call.                                                       *)

\* The stored tracks differ in their track_id only.
InitMove ==
    /\ InitEdit
    /\ \A k \in DOMAIN files[1].tracks : files[1].tracks[k].title = <<"a">>

NextMove ==
    /\ \/ Tick
       \/ \E pid \in StoredOrNot, i \in IndexArgs, j \in IndexArgs :
              MoveTrack(pid, i, j)
    /\ UNCHANGED budget

SpecMove == InitMove /\ [][NextMove]_vars

----------------------------------------------------------------------------
(* Calls whose playlist id or platform name does not resolve: the id 0 is *)
(* not stored and "spotify" is not registered.                            *)

\* The (playlist id, platform name) arguments of sync_to_platform of which
\* one at least does not resolve.
UnresolvedPushArgs ==
    {a \in StoredOrNot \X PlatformNames :
        a[1] \notin DOMAIN files \/ a[2] \notin platforms}

InitNotFound == InitEdit

NotFoundCall ==
    \/ \E oc \in SaveOutcomes : AddTrackToPlaylist(0, oc)
    \/ \E tid \in TrackIdArgs : RemoveTrackFromPlaylist(0, tid)
    \/ \E i \in IndexArgs, j \in IndexArgs : MoveTrack(0, i, j)
    \/ \E name \in Names, oc \in SaveOutcomes : RenamePlaylist(0, name, oc)
    \/ \E tags \in TagLists, oc \in SaveOutcomes : AddTagsToPlaylist(0, tags, oc)
    \/ \E new_name \in CopyNameArgs, oc \in SaveOutcomes :
           DuplicatePlaylist(0, new_name, oc)
    \/ \E path \in Paths : ExportPlaylist(0, path)
    \/ \E a \in UnresolvedPushArgs : SyncTo(a[1], a[2])
    \/ \E rid \in RemoteArgs : SyncFromPlatform("spotify", rid)

NextNotFound ==
    /\ Tick \/ NotFoundCall
    /\ UNCHANGED budget

SpecNotFound == InitNotFound /\ [][NextNotFound]_vars

----------------------------------------------------------------------------
(* Pushing a stored playlist and deleting playlists of the platform's     *)
(* library through the adapter.                                           *)

NextRemote ==
    /\ \/ \E pid \in PidArgs, pn \in PlatformNames : SyncTo(pid, pn)
       \/ \E rid \in RemoteArgs, request_ok \in BOOLEAN :
              PlatformDeletePlaylist(rid, request_ok)
    /\ UNCHANGED budget

SpecRemote == InitPush /\ [][NextRemote]_vars

----------------------------------------------------------------------------
(* Claims about push-sync.  A push is a sync_to_platform call that got as *)
(* far as the adapter: last.adapter is then the adapter's result.         *)

IsPush == last.op = "sync_to_platform" /\ ~IsNone(last.adapter)

(* C1: sync_playlist_to_platform decides create-vs-update from the        *)
(* playlist's own platform id: with an id it calls update_playlist once   *)
(* and never create_playlist; with none it calls create_playlist once and *)
(* never update_playlist, and on a returned id it stores that id under    *)
(* the platform name on the playlist and returns True.                    *)

C1_CreateOrUpdateByOwnId ==
    IsPush =>
        IF TruthyId(last.before_id)
        THEN last.updates = 1 /\ last.creates = 0
        ELSE /\ last.creates = 1 /\ last.updates = 0
             /\ TruthyId(last.new_id) =>
                    /\ GetPlatformId(Val(last.produced), AppleMusic) = last.new_id
                    /\ last.adapter = Some(TRUE)

C1_Witness ==
    /\ IsPush /\ ~TruthyId(last.before_id) /\ TruthyId(last.new_id)
    /\ GetPlatformId(Val(last.produced), AppleMusic) = Some("r1")
    /\ last.ok

(* C2: in any sequence of successful sync_to_platform calls on a stored   *)
(* playlist, create_playlist is invoked at most once, and only by a call  *)
(* that found no platform id stored; every successful call that found one *)
(* invokes exactly one update_playlist and no create_playlist; and the    *)
(* stored platform id never changes after it is first set.                *)

StoredId(fs, pid) ==
    IF pid \in DOMAIN fs THEN DictGet(fs[pid].platform_ids, AppleMusic) ELSE None

C2_PushIsIdempotent ==
    [][ /\ \A pid \in DOMAIN files :
              TruthyId(StoredId(files, pid)) =>
                  StoredId(files', pid) = StoredId(files, pid)
        /\ \A pid \in DOMAIN pushCreates' : pushCreates'[pid] <= 1
        /\ (last'.op = "sync_to_platform" /\ last'.ok) =>
              /\ last'.creates = 1 => ~TruthyId(last'.before_id)
              /\ TruthyId(last'.before_id) =>
                     last'.updates = 1 /\ last'.creates = 0
              /\ last'.creates + last'.updates = 1 ]_vars

C2_Witness ==
    /\ IsPush /\ last.ok /\ last.updates = 1
    /\ 1 \in DOMAIN pushCreates /\ pushCreates[1] = 1
    /\ StoredId(files, 1) = Some("r1")

(* C3 (as stated): after a successful update_playlist the remote          *)
(* playlist's track membership equals exactly the sequence of local       *)
(* tracks that resolve to a platform track id.                            *)

C3_UpdateReplacesRemoteTracks ==
    (IsPush /\ last.updates = 1 /\ last.adapter = Some(TRUE)) =>
        remote[Val(last.before_id)].tracks = Val(last.sent)

(* C4: when create_playlist returns no id, or update_playlist returns     *)
(* False, sync_playlist_to_platform returns False, the playlist's         *)
(* platform_ids are unchanged, and sync_to_platform returns False without *)
(* writing the playlist back to storage.                                  *)

C4_AdapterFailureLeavesLocalStateAlone ==
    [][ (last'.op = "sync_to_platform" /\ last'.adapter # None
         /\ (IF TruthyId(last'.before_id) THEN last'.adapter = Some(FALSE)
             ELSE ~TruthyId(last'.new_id))) =>
            /\ last'.adapter = Some(FALSE)
            /\ ~last'.ok
            /\ Val(last'.produced) = Val(Load(files, last'.pid))
            /\ last'.saves = 0
            /\ files' = files /\ index' = index ]_vars

C4_Witness ==
    /\ IsPush /\ last.adapter = Some(FALSE) /\ ~last.ok
    /\ last.creates = 1 /\ ~TruthyId(StoredId(files, 1))
    /\ Len(files[1].tracks) > 0

(* C7: the track list create_playlist and update_playlist send is exactly *)
(* the subsequence, in local order, of the local tracks that carry a      *)
(* platform id or for which search_track returns a track; an unresolved   *)
(* track is omitted and the operation proceeds, also when no track        *)
(* resolves.                                                              *)

Resolvable(tracks, found, i) ==
    TruthyId(GetPlatformId(tracks[i], AppleMusic)) \/ ~IsNone(found[i])

ResolvedId(tracks, found, i) ==
    IF TruthyId(GetPlatformId(tracks[i], AppleMusic))
    THEN Val(GetPlatformId(tracks[i], AppleMusic))
    ELSE Val(found[i]).id

RECURSIVE ResolvedPrefix(_, _, _)
ResolvedPrefix(tracks, found, n) ==
    IF n = 0 THEN <<>>
    ELSE IF Resolvable(tracks, found, n)
         THEN Append(ResolvedPrefix(tracks, found, n - 1), ResolvedId(tracks, found, n))
         ELSE ResolvedPrefix(tracks, found, n - 1)

C7_SendsResolvableSubsequence ==
    IsPush =>
        LET tracks == Val(last.produced).tracks
        IN  /\ (last.creates = 1 \/ last.adapter = Some(TRUE)) => ~IsNone(last.sent)
            /\ ~IsNone(last.sent) =>
                   Val(last.sent) = ResolvedPrefix(tracks, last.found, Len(tracks))

C7_Witness ==
    /\ IsPush /\ last.adapter = Some(TRUE)
    /\ Len(Val(last.produced).tracks) = 2
    /\ ~Resolvable(Val(last.produced).tracks, last.found, 1)
    /\ Resolvable(Val(last.produced).tracks, last.found, 2)
    /\ Len(Val(last.sent)) = 1

C7_WitnessNoneResolves ==
    /\ IsPush /\ last.ok /\ Len(Val(last.produced).tracks) > 0
    /\ last.sent = Some(<<>>)

----------------------------------------------------------------------------
(* C6: for all tracks A, B and both values of strict, Track.matches(A, B) *)
(* is ISRC equality (case-sensitive) when both have a non-empty ISRC, and *)
(* otherwise equality of the trimmed, lowercased titles and of the        *)
(* trimmed, lowercased artists.                                           *)

HasIsrc(t) == t.isrc # None /\ t.isrc # Some(<<>>)

RefMatches(a, b) ==
    IF HasIsrc(a) /\ HasIsrc(b)
    THEN Val(a.isrc) = Val(b.isrc)
    ELSE /\ Lower(Strip(a.title)) = Lower(Strip(b.title))
         /\ Lower(Strip(a.artist)) = Lower(Strip(b.artist))

C6_MatchesIsReferenceRule ==
    (arg.fn = "matches" /\ out.done) => out.value = RefMatches(arg.a, arg.b)

C6_Witness ==
    /\ arg.fn = "matches" /\ out.done /\ out.value
    /\ ~HasIsrc(arg.a) /\ HasIsrc(arg.b)
    /\ arg.a.title # arg.b.title /\ arg.a.artist # arg.b.artist

----------------------------------------------------------------------------
(* C8 (as stated): whenever search_track returns a track it is the first  *)
(* ranked result, and it returns not-found when the first ranked result   *)
(* does not satisfy the containment match.                                *)

C8_FirstRankedOnly ==
    (arg.fn = "search_track" /\ out.done /\ arg.resp.ok /\ Len(arg.resp.data) > 0) =>
        /\ ~IsNone(out.value) => Val(out.value) = arg.resp.data[1]
        /\ ~SongMatches(arg.title, arg.artist, arg.resp.data[1]) => IsNone(out.value)

(* C8 (amended): search_track scans the ranked results in order and       *)
(* returns the first one that satisfies the containment match; it returns *)
(* not-found exactly when the request fails or no ranked result satisfies *)
(* the containment match.                                                 *)

C8_FirstContainedResult ==
    (arg.fn = "search_track" /\ out.done) =>
        LET data == arg.resp.data
            ok(i) == SongMatches(arg.title, arg.artist, data[i])
        IN  /\ IsNone(out.value) <=>
                  (~arg.resp.ok \/ \A i \in 1..Len(data) : ~ok(i))
            /\ ~IsNone(out.value) =>
                  \E i \in 1..Len(data) :
                      /\ ok(i) /\ Val(out.value) = data[i]
                      /\ \A j \in 1..(i - 1) : ~ok(j)

C8_Witness ==
    /\ arg.fn = "search_track" /\ out.done /\ arg.resp.ok
    /\ Len(arg.resp.data) >= 2
    /\ ~SongMatches(arg.title, arg.artist, arg.resp.data[1])
    /\ ~IsNone(out.value) /\ Val(out.value) = arg.resp.data[2]
    /\ Len(arg.title) > 0 /\ Len(arg.artist) > 0

----------------------------------------------------------------------------
(* C5: every sync_from_platform that returns a playlist stores it under a *)
(* playlist id no stored record had, the stored playlist carries the      *)
(* requested platform playlist id under the platform name, and every      *)
(* record stored before the call is unchanged; so pulling one platform    *)
(* playlist id twice gives two distinct records.                          *)

IsPull == last.op = "sync_from_platform" /\ last.ok

C5_PullStoresFreshRecord ==
    [][ (nextPid' = nextPid + 1 /\ last'.op = "sync_from_platform" /\ last'.ok)
        => LET p == Val(last'.produced)
           IN  /\ p.playlist_id \notin DOMAIN files
               /\ GetPlatformId(p, last'.platform) = Some(last'.rid)
               /\ \A q \in DOMAIN files :
                      q \in DOMAIN files' /\ files'[q] = files[q]
               /\ Load(files', p.playlist_id) = Some(p) ]_vars

----------------------------------------------------------------------------
(* C9: after create_playlist, import_playlist or sync_from_platform has   *)
(* returned a playlist, and after add_track_to_playlist, rename_playlist, *)
(* add_tags_to_playlist or sync_to_platform has returned True,            *)
(* get_playlist on that id returns the state the call produced, whatever  *)
(* the outcome of the save step; for add_track_to_playlist the new track  *)
(* is the last one.                                                       *)

ReturnsPlaylist ==
    /\ last.op \in {"create_playlist", "import_playlist", "sync_from_platform"}
    /\ last.ok

ReturnsTrue ==
    /\ last.op \in {"add_track_to_playlist", "rename_playlist",
                    "add_tags_to_playlist", "sync_to_platform"}
    /\ last.ok

C9_ReturnedCallIsDurable ==
    /\ ReturnsPlaylist =>
           Load(files, Val(last.produced).playlist_id) = last.produced
    /\ ReturnsTrue => Load(files, last.pid) = last.produced
    /\ (ReturnsTrue /\ last.op = "add_track_to_playlist") =>
           LET got == Val(Load(files, last.pid)).tracks
           IN  Len(got) > 0 /\ got[Len(got)] = Val(last.track)

----------------------------------------------------------------------------
(* C10: when two processes interleave manager operations on two different *)
(* playlists, then once both have finished, every playlist whose owner's  *)
(* last operation was a save has its record and its list_playlists entry  *)
(* present and equal to what that save wrote.                             *)

BothFinished == \A i \in Procs : pc[i] = "idle"

C10_RaceOnlyPerRecord ==
    (RaceParked = FALSE /\ BothFinished) =>
        \A i \in Procs :
            job[i].op = "save" =>
                LET p == Val(job[i].playlist)
                IN  /\ Load(files, i) = Some(p)
                    /\ i \in DOMAIN index
                    /\ index[i] = Summary(p)

----------------------------------------------------------------------------
(* C11: after each successful add_track_to_playlist,                      *)
(* remove_track_from_playlist, move_track, rename_playlist,               *)
(* add_tags_to_playlist that adds a new tag, and sync_to_platform that    *)
(* associates a platform id, the stored updated_at is the time of that    *)
(* operation (so it is not the earlier value once the clock has moved).   *)

IsCall == budget' # budget

MutatingCall ==
    /\ IsCall /\ last'.ok
    /\ \/ last'.op \in {"add_track_to_playlist", "remove_track_from_playlist",
                        "move_track", "rename_playlist"}
       \/ /\ last'.op = "add_tags_to_playlist"
          /\ Val(last'.produced).tags # files[last'.pid].tags
       \/ /\ last'.op = "sync_to_platform"
          /\ last'.creates = 1

C11_MutationRefreshesUpdatedAt ==
    [][ MutatingCall => files'[last'.pid].updated_at = clock ]_vars

----------------------------------------------------------------------------
(* C12: under a non-decreasing clock no manager call makes the stored     *)
(* updated_at of a playlist smaller than it was, and the stored           *)
(* updated_at is never earlier than the stored created_at; this includes  *)
(* update_playlist of a copy that get_playlist returned earlier.          *)

C12_UpdatedAtNeverDecreases ==
    [][ \A pid \in DOMAIN files' :
            /\ files'[pid].updated_at >= files'[pid].created_at
            /\ pid \in DOMAIN files =>
                   files'[pid].updated_at >= files[pid].updated_at ]_vars

----------------------------------------------------------------------------
(* C13: in every playlist stored through create_playlist,                 *)
(* add_tags_to_playlist, duplicate_playlist and merge_playlists no tag    *)
(* value occurs twice, and a call keeps the tags a playlist had, in their *)
(* order, in front of the ones it adds.                                   *)

NoRepeat(seq) == \A i, j \in 1..Len(seq) : seq[i] = seq[j] => i = j

IsPrefix(a, b) == Len(a) <= Len(b) /\ SubSeq(b, 1, Len(a)) = a

C13_TagsAreDuplicateFree ==
    [][ /\ \A pid \in DOMAIN files' : NoRepeat(files'[pid].tags)
        /\ \A pid \in DOMAIN files \cap DOMAIN files' :
               IsPrefix(files[pid].tags, files'[pid].tags) ]_vars

----------------------------------------------------------------------------
(* C14: a duplicate_playlist that returns a playlist has stored it under  *)
(* a playlist id that differs from the source's and from every stored     *)
(* id; its tracks are the source's tracks, equal in content and order and *)
(* with the same track_id each; its name is "Copy of <source name>" when  *)
(* no name is supplied and the supplied name otherwise; the source record *)
(* is unchanged; and every later call on one playlist id leaves the       *)
(* records of all other ids as they were.                                 *)

IsDuplicate ==
    IsCall /\ last'.op = "duplicate_playlist" /\ last'.ok

C14_DuplicateIsIndependentCopy ==
    [][ /\ IsDuplicate =>
               LET d == Val(last'.produced)
                   src == Val(Load(files, last'.pid))
               IN  /\ d.playlist_id # src.playlist_id
                   /\ d.playlist_id \notin DOMAIN files
                   /\ Load(files', d.playlist_id) = Some(d)
                   /\ d.tracks = src.tracks
                   /\ \A k \in 1..Len(src.tracks) :
                          d.tracks[k].track_id = src.tracks[k].track_id
                   /\ IsNone(last'.new_name) => d.name = "Copy of " \o src.name
                   /\ (~IsNone(last'.new_name) /\ Val(last'.new_name) # "") =>
                          d.name = Val(last'.new_name)
                   /\ files'[src.playlist_id] = files[src.playlist_id]
        /\ (IsCall /\ last'.op \in {"add_track_to_playlist", "rename_playlist"}) =>
               \A q \in DOMAIN files :
                   q # last'.pid => q \in DOMAIN files' /\ files'[q] = files[q] ]_vars

C14_Witness ==
    LET src == MaxPlaylists
        dup == MaxPlaylists + 1
    IN  /\ last.op = "add_track_to_playlist" /\ last.ok /\ last.pid = src
        /\ dup \in DOMAIN files
        /\ files[dup].name = "Copy of n1"
        /\ Len(files[dup].tracks) >= 1
        /\ Len(files[src].tracks) = Len(files[dup].tracks) + 1
        /\ \A k \in 1..Len(files[dup].tracks) :
               files[dup].tracks[k] = files[src].tracks[k]

----------------------------------------------------------------------------
(* C15 and C16: merge_playlists.  SourceTracks is the concatenation, in   *)
(* listed order, of the tracks of the listed ids that are stored.         *)

RECURSIVE SourceTracks(_, _)
SourceTracks(fs, ids) ==
    IF Len(ids) = 0 THEN <<>>
    ELSE SourceTracks(fs, SubSeq(ids, 1, Len(ids) - 1)) \o
         (IF ids[Len(ids)] \in DOMAIN fs
          THEN FromDict(fs[ids[Len(ids)]]).tracks ELSE <<>>)

SamePair(a, b) ==
    Lower(a.title) = Lower(b.title) /\ Lower(a.artist) = Lower(b.artist)

\* The first n tracks of seq without those that have an earlier track of
\* seq with the same pair.
RECURSIVE FirstOccurrences(_, _)
FirstOccurrences(seq, n) ==
    IF n = 0 THEN <<>>
    ELSE IF \E j \in 1..(n - 1) : SamePair(seq[j], seq[n])
         THEN FirstOccurrences(seq, n - 1)
         ELSE Append(FirstOccurrences(seq, n - 1), seq[n])

IsMerge == nextPid' = nextPid + 1 /\ last'.op = "merge_playlists"

(* C15: a merge with deduplication that returns a playlist has stored as  *)
(* its tracks the first occurrence of each distinct pair (lowercased      *)
(* title, lowercased artist) of the concatenation of the resolved         *)
(* sources, in concatenation order.                                       *)

C15_MergeKeepsFirstOfEachPair ==
    [][ (IsMerge /\ last'.dedup /\ last'.ok) =>
            LET all == SourceTracks(files, last'.ids)
            IN  /\ Val(last'.produced).tracks = FirstOccurrences(all, Len(all))
                /\ Load(files', last'.pid) = last'.produced ]_vars

(* C16: a merge without deduplication saves a new playlist whatever the   *)
(* ids resolve to; when it returns the playlist, the stored tracks are    *)
(* the concatenation, in listed order, of the tracks of the listed ids    *)
(* that resolve (an id listed twice contributes twice, an id that does    *)
(* not resolve nothing); every source record is left unchanged.           *)

C16_MergeConcatenates ==
    [][ (IsMerge /\ ~last'.dedup) =>
            /\ last'.saves = 1
            /\ last'.pid \notin DOMAIN files
            /\ \A q \in DOMAIN files : q \in DOMAIN files' /\ files'[q] = files[q]
            /\ last'.ok =>
                   /\ Val(last'.produced).tracks = SourceTracks(files, last'.ids)
                   /\ Load(files', last'.pid) = last'.produced ]_vars

C16_Witness ==
    /\ last.op = "merge_playlists" /\ ~last.dedup /\ last.ok
    /\ last.ids = <<0, 1>>
    /\ Len(files[1].tracks) >= 2
    /\ SamePair(files[1].tracks[1], files[1].tracks[2])
    /\ files[last.pid].tracks = files[1].tracks

----------------------------------------------------------------------------
(* C17: move_track on a stored playlist with from_index or to_index       *)
(* outside [0, length), negative indices and the empty playlist included, *)
(* returns False; Playlist.move_track leaves the object's track order and *)
(* updated_at as loaded, and the stored record and the index are          *)
(* unchanged.                                                             *)

InRange(i, n) == 0 <= i /\ i < n

IsMove == clock' = clock /\ last'.op = "move_track"

C17_MoveOutOfRangeChangesNothing ==
    [][ (/\ IsMove
         /\ last'.pid \in DOMAIN files
         /\ \/ ~InRange(last'.from_index, Len(files[last'.pid].tracks))
            \/ ~InRange(last'.to_index, Len(files[last'.pid].tracks))) =>
            /\ ~last'.ok
            /\ last'.saves = 0
            /\ last'.produced = Load(files, last'.pid)
            /\ files' = files /\ index' = index ]_vars

C17_Witness ==
    /\ last.op = "move_track" /\ ~last.ok /\ last.saves = 0
    /\ last.pid \in DOMAIN files
    /\ Len(files[last.pid].tracks) >= 2
    /\ last.from_index = -1 /\ last.to_index = 0
    /\ clock > files[last.pid].updated_at

----------------------------------------------------------------------------
(* C18: add_track_to_playlist, remove_track_from_playlist, move_track,    *)
(* rename_playlist, add_tags_to_playlist, duplicate_playlist,             *)
(* export_playlist and sync_to_platform with a playlist id that is not    *)
(* stored, and sync_to_platform / sync_from_platform with a platform name *)
(* that is not registered, return False or None, call no adapter          *)
(* operation, save nothing, and leave the playlist files, the index, the  *)
(* platform library and the exported files unchanged.                     *)

UnresolvedCall ==
    /\ clock' = clock
    /\ \/ /\ last'.op \in {"add_track_to_playlist", "remove_track_from_playlist",
                           "move_track", "rename_playlist", "add_tags_to_playlist",
                           "duplicate_playlist", "export_playlist",
                           "sync_to_platform"}
          /\ last'.pid \notin DOMAIN files
       \/ /\ last'.op \in {"sync_to_platform", "sync_from_platform"}
          /\ last'.platform \notin platforms

C18_NotFoundHasNoSideEffects ==
    [][ UnresolvedCall =>
            /\ ~last'.ok
            /\ IsNone(last'.adapter) /\ last'.creates = 0 /\ last'.updates = 0
            /\ last'.saves = 0
            /\ files' = files /\ index' = index
            /\ remote' = remote /\ exports' = exports ]_vars

C18_Witness ==
    /\ last.op = "sync_to_platform" /\ ~last.ok
    /\ last.pid \in DOMAIN files /\ last.platform \notin platforms
    /\ Len(files[last.pid].tracks) >= 1
    /\ IsNone(last.adapter)

----------------------------------------------------------------------------
(* C19: delete_playlist on an id that is not stored returns False and     *)
(* leaves the playlist files and the index unchanged; it returns True     *)
(* only when a stored playlist with that id was removed.                  *)

C19_DeleteReportsNotFound ==
    [][ (IsCall /\ last'.op = "delete_playlist") =>
            /\ last'.pid \notin DOMAIN files =>
                   ~last'.ok /\ files' = files /\ index' = index
            /\ last'.ok =>
                   last'.pid \in DOMAIN files /\ last'.pid \notin DOMAIN files' ]_vars

----------------------------------------------------------------------------
(* C20: whenever the DELETE request of AppleMusicPlatform.delete_playlist *)
(* fails, delete_playlist returns False.                                  *)

C20_FailedDeleteReturnsFalse ==
    (last.op = "platform_delete_playlist" /\ last.request_failed) =>
        last.adapter = Some(FALSE)

----------------------------------------------------------------------------
(* C21: when a request made by the adapter's get_playlist fails, the      *)
(* tracks request after a successful playlist request included,           *)
(* sync_from_platform returns None and stores no local record.            *)

C21_FailedRequestStoresNothing ==
    [][ ( /\ platforms' = platforms /\ clock' = clock
          /\ last'.op = "sync_from_platform" /\ last'.request_failed )
        => ( /\ ~last'.ok /\ IsNone(last'.produced)
             /\ files' = files /\ index' = index ) ]_vars

----------------------------------------------------------------------------
(* C22: for every playlist p, Playlist.from_dict(p.to_dict()), and        *)
(* JSONStorage.load after JSONStorage.save, reproduce p: its id, name,    *)
(* description, timestamps, tags, platform ids and its tracks in order    *)
(* with all their fields.                                                 *)

C22_RoundTripReproduces ==
    (arg.fn = "round_trip" /\ out.done) =>
        /\ out.value.from_dict = arg.playlist
        /\ out.value.loaded = Some(arg.playlist)

----------------------------------------------------------------------------
(* C29: Playlist.from_dict leaves the dictionary passed to it unchanged,  *)
(* so deserializing the same dictionary twice yields two playlists with   *)
(* the same tracks, tags and platform ids.                                *)

C29_FromDictLeavesDataAlone ==
    (arg.fn = "from_dict_twice" /\ out.done) =>
        /\ out.value.data = ToDict(arg.playlist)
        /\ out.value.second.tracks = out.value.first.tracks
        /\ out.value.second.tags = out.value.first.tags
        /\ out.value.second.platform_ids = out.value.first.platform_ids

----------------------------------------------------------------------------
(* C23: CSV export followed by CSV import preserves, for every track and  *)
(* in the same order, the title, artist, album, duration, ISRC and        *)
(* additional-artist list, for every valid track: optional fields present *)
(* or absent and duration any integer >= 0.                               *)

SameCsvFields(a, b) ==
    /\ a.title = b.title /\ a.artist = b.artist /\ a.album = b.album
    /\ a.duration_ms = b.duration_ms /\ a.isrc = b.isrc
    /\ a.additional_artists = b.additional_artists

C23_CsvRoundTripPreservesTracks ==
    (arg.fn = "csv_round_trip" /\ out.done) =>
        /\ Len(out.value) = Len(arg.tracks)
        /\ \A i \in 1..Len(arg.tracks) : SameCsvFields(out.value[i], arg.tracks[i])

----------------------------------------------------------------------------
(* C24: after delete_playlist(id) returns True, get_playlist(id) returns  *)
(* None and list_playlists has no entry for id, while every other stored  *)
(* playlist, duplicates of it and merges built from it included, keeps    *)
(* its record and its tracks unchanged.                                   *)

IsDelete == IsCall /\ last'.op = "delete_playlist" /\ last'.ok

C24_DeleteHasNoCascade ==
    [][ IsDelete =>
            /\ IsNone(Load(files', last'.pid))
            /\ \A e \in ListAll(index') : e.playlist_id # last'.pid
            /\ \A q \in (DOMAIN files) \ {last'.pid} :
                   q \in DOMAIN files' /\ files'[q] = files[q]
            /\ \A q \in (DOMAIN index) \ {last'.pid} :
                   q \in DOMAIN index' /\ index'[q] = index[q] ]_vars

C24_Witness ==
    /\ last.op = "delete_playlist" /\ last.ok /\ last.pid = 1
    /\ 1 \notin DOMAIN files
    /\ \E q \in DOMAIN files :
           /\ files[q].name = "Copy of n1"
           /\ Len(files[q].tracks) = MaxTracks
    /\ \E r \in DOMAIN files :
           /\ files[r].name = "n2"
           /\ Len(files[r].tracks) >= 1
           /\ files[r].tracks[1].title = <<"a">>

----------------------------------------------------------------------------
(* C25: with no storage I/O error, after any sequence of manager          *)
(* operations list_playlists() has exactly one entry per id for which     *)
(* get_playlist returns a playlist, each entry's name, tags and           *)
(* track_count are that playlist's name, tags and number of tracks, and   *)
(* get_stats reports the number of stored playlists and the sum of their  *)
(* track counts.                                                          *)

RECURSIVE SumStoredTracks(_, _)
SumStoredTracks(fs, ids) ==
    IF ids = {} THEN 0
    ELSE LET id == CHOOSE x \in ids : TRUE
         IN  Len(Val(Load(fs, id)).tracks) + SumStoredTracks(fs, ids \ {id})

Gettable(fs) == {id \in DOMAIN fs : ~IsNone(Load(fs, id))}

----------------------------------------------------------------------------
(* C26: remove_track_from_playlist removes every track whose track_id is  *)
(* the given id, keeps the remaining tracks in their relative order and   *)
(* returns True iff at least one track was removed; when no track has     *)
(* that id it returns False and the stored record, its updated timestamp  *)
(* included, is unchanged.  The call returns what save returns, so True   *)
(* stands for a removal that was saved.                                   *)

RECURSIVE WithoutId(_, _)
WithoutId(tracks, tid) ==
    IF Len(tracks) = 0 THEN <<>>
    ELSE IF Head(tracks).track_id = tid THEN WithoutId(Tail(tracks), tid)
    ELSE <<Head(tracks)>> \o WithoutId(Tail(tracks), tid)

HasId(tracks, tid) == \E k \in 1..Len(tracks) : tracks[k].track_id = tid

IsRemove ==
    /\ clock' = clock /\ last'.op = "remove_track_from_playlist"
    /\ last'.pid \in DOMAIN files

C26_RemoveTakesEveryOccurrence ==
    [][ IsRemove =>
                LET before == Val(Load(files, last'.pid))
                    after == Val(Load(files', last'.pid))
                    tid == last'.track_id
                IN  IF HasId(before.tracks, tid)
                    THEN /\ last'.saves = 1
                         /\ Val(last'.produced).tracks = WithoutId(before.tracks, tid)
                         /\ last'.ok => /\ after.tracks = WithoutId(before.tracks, tid)
                                         /\ after.updated_at = clock
                         /\ ~last'.ok => index' = index
                    ELSE /\ ~last'.ok /\ last'.saves = 0
                         /\ files' = files /\ index' = index ]_vars

C26_Witness ==
    /\ last.op = "remove_track_from_playlist" /\ last.ok /\ last.pid = 1
    /\ last.track_id = 1
    /\ Len(files[1].tracks) = MaxTracks - 1
    /\ files[1].tracks[1].track_id = 2
    /\ files[1].updated_at = 1

----------------------------------------------------------------------------
(* C27: for 0 <= from_index, to_index < length, move_track returns True   *)
(* and the resulting track list is a permutation of the previous one with *)
(* the same length, in which the moved track sits at index to_index and   *)
(* all other tracks keep their relative order; with from_index = to_index *)
(* the order is unchanged.  The manager's call returns what save returns. *)

\* seq without its element at index i, counted from 0.
Others(seq, i) == SubSeq(seq, 1, i) \o SubSeq(seq, i + 2, Len(seq))

Count(seq, x) == Cardinality({k \in 1..Len(seq) : seq[k] = x})

IsPermutation(a, b) ==
    /\ Len(a) = Len(b)
    /\ \A k \in 1..Len(a) : Count(a, a[k]) = Count(b, a[k])

C27_MoveInRangeReorders ==
    [][ (/\ IsMove
         /\ last'.pid \in DOMAIN files
         /\ InRange(last'.from_index, Len(files[last'.pid].tracks))
         /\ InRange(last'.to_index, Len(files[last'.pid].tracks))) =>
            LET before == Val(Load(files, last'.pid)).tracks
                result == Val(last'.produced).tracks
                f == last'.from_index
                t == last'.to_index
            IN  /\ last'.saves = 1
                /\ IsPermutation(result, before)
                /\ result[t + 1] = before[f + 1]
                /\ Others(result, t) = Others(before, f)
                /\ f = t => result = before
                /\ last'.ok => Val(Load(files', last'.pid)).tracks = result
                /\ ~last'.ok => index' = index ]_vars

C27_Witness ==
    /\ last.op = "move_track" /\ last.ok /\ last.pid = 1
    /\ last.from_index = 0 /\ last.to_index = MaxTracks
    /\ files[1].tracks[1].track_id = 2
    /\ files[1].tracks[2].track_id = 3
    /\ files[1].tracks[MaxTracks + 1].track_id = 1

----------------------------------------------------------------------------
(* C28: sync_to_platform, whether it succeeds or fails, leaves the stored *)
(* playlist's track list, each track's fields and each track's            *)
(* platform_ids as they were: search results are not written back.  The   *)
(* only change a sync makes to a stored record is the playlist-level      *)
(* platform id and updated_at.                                            *)

C28_PushLeavesTracksAlone ==
    [][ last'.op = "sync_to_platform" =>
            /\ DOMAIN files' = DOMAIN files
            /\ \A q \in DOMAIN files :
                   /\ files'[q].tracks = files[q].tracks
                   /\ [files'[q] EXCEPT !.platform_ids = files[q].platform_ids,
                                        !.updated_at = files[q].updated_at] = files[q]
                   /\ q # last'.pid => files'[q] = files[q]
            /\ ~IsNone(last'.produced) =>
                   Val(last'.produced).tracks = files[last'.pid].tracks ]_vars

C28_Witness ==
    /\ last.op = "sync_to_platform" /\ last.ok
    /\ ~IsNone(GetPlatformId(files[last.pid], AppleMusic))
    /\ \E k \in 1..Len(files[last.pid].tracks) :
           /\ ~IsNone(last.found[k])
           /\ IsNone(GetPlatformId(files[last.pid].tracks[k], AppleMusic))

----------------------------------------------------------------------------
(* C30: JSON import stores the playlist under the playlist id contained   *)
(* in the file: importing a JSON export of a playlist that is still       *)
(* stored replaces that record with the file's content, changes made      *)
(* since the export are lost and the number of stored playlists is        *)
(* unchanged; CSV import always adds a record with a fresh playlist id    *)
(* and fresh track ids.                                                   *)

StoredTrackIds(fs) ==
    UNION {{fs[q].tracks[k].track_id : k \in 1..Len(fs[q].tracks)} : q \in DOMAIN fs}

IsImport == IsCall /\ last'.op = "import_playlist" /\ last'.ok

C30_ImportKeepsOrMintsId ==
    [][ IsImport =>
            LET p == Val(last'.produced)
                id == p.playlist_id
            IN  /\ Load(files', id) = Some(p)
                /\ DOMAIN files' = (DOMAIN files) \cup {id}
                /\ \A q \in (DOMAIN files) \ {id} : files'[q] = files[q]
                /\ IF last'.format = "json"
                   THEN /\ id = exports[last'.path].playlist_id
                        /\ files'[id] = exports[last'.path]
                   ELSE /\ id \notin DOMAIN files
                        /\ \A k \in 1..Len(p.tracks) :
                               p.tracks[k].track_id \notin StoredTrackIds(files) ]_vars

====
